---- MODULE Spec2Model ----
(***************************************************************************)
(* Model of the JSF decoder's analysis pipeline: body extraction, form     *)
(* decoding, detection, categorization, component-ID parsing, view-state   *)
(* analysis, the percent codec and the value explainer.  JavaScript        *)
(* strings are TLA+ strings, except in the percent codec, which works on   *)
(* sequences of UTF-16 code units; a JavaScript value that may be a        *)
(* non-string is a record [t, v] (JsString, JsNull...).  A nullable slot   *)
(* (T | null) is a sequence of length 0 (null) or 1.                       *)
(***************************************************************************)
EXTENDS Integers, Sequences, FiniteSets, TLC

VARIABLES
  pc,           \* position in the analysis of one input
  raw,          \* the value handed to detectJsf / parseJsfBody
  detection,    \* JsfDetectionResult of detectJsf(raw)
  isJsf,        \* result of isJsfRequest(raw)
  parseResult,  \* ParseResult of parseJsfBody(raw)
  categories,   \* CategorizedParameters of categorizeParameters(parameters)
  categoryRefs, \* per bucket, the references of the objects it holds
  id,           \* the value handed to parseComponentId
  levels,       \* ComponentIdLevel[] of parseComponentId(id)
  tree,         \* formatComponentIdTree(levels)
  original,     \* the string handed to encodeParameter (its code units)
  coded,        \* the string after the encodings and decodings so far
  message,      \* the value handed to extractBodyFromRaw
  extracted,    \* extractBodyFromRaw(message)
  viewStateValue,     \* the string handed to analyzeViewState
  viewStateAnalysis,  \* ViewStateAnalysis of analyzeViewState(viewStateValue)
  explainedName,      \* the parameter name handed to analyzeValue
  explainedValue,     \* the decoded value handed to analyzeValue
  valueAnalysis,      \* ValueAnalysis | null of analyzeValue(name, value)
  content,  \* the value handed to scanForSecurityPatterns
  highlights, \* SecurityHighlight[] of scanForSecurityPatterns(content)
  props,  \* the candidates for the raw message the view is given
  parsedRequest,  \* the cached value of the computed parsedRequest, null if none
  rendered,  \* the error message and whether the main content is shown
  clipboard,  \* the text last copied, null if none
  copyFeedback, \* the feedback shown after a copy, null if none
  caido,  \* the module variable of the SDK singleton, null if unset
  calls, \* the calls made so far, each with what it returned or did
  storage,  \* the settings item of localStorage
  expandedSections,  \* the Set of the expanded sections
  expandedParams,  \* the Set of the expanded parameter keys
  showVerbose,  \* the Verbose check box
  history  \* the mount and the toggles so far, each with the sections after it

requestVars == <<raw, detection, isJsf, parseResult, categories, categoryRefs>>
componentIdVars == <<id, levels, tree>>
codecVars == <<original, coded>>
messageVars == <<message, extracted>>
viewStateVars == <<viewStateValue, viewStateAnalysis>>
explainerVars == <<explainedName, explainedValue, valueAnalysis>>
scannerVars == <<content, highlights>>
viewVars == <<props, parsedRequest, rendered, clipboard, copyFeedback>>
pluginVars == <<caido, calls>>
settingsVars == <<storage, expandedSections, expandedParams, showVerbose, history>>

vars == <<pc, requestVars, componentIdVars, codecVars, messageVars,
          viewStateVars, explainerVars, scannerVars, viewVars, pluginVars, settingsVars>>

-----------------------------------------------------------------------------
(* Bounds *)

MaxParams == 2      \* '&'-delimited segments per generated body
MaxTokens == 3      \* colon-separated tokens per generated component ID
MaxUnits == 3       \* code units per generated string to encode
MaxParts == 3       \* pieces per generated raw message
MaxChunks == 3      \* pieces per generated view-state value
LargeQuads == 3750  \* base64 quadruples of the large view-state value
MaxFragments == 2   \* pieces per generated text to scan
MaxProps == 2       \* candidates for the raw message that are defined
MaxCalls == 3       \* calls of setCaido, getCaido and init
MaxToggles == 3     \* calls of toggleSection and toggleParam

-----------------------------------------------------------------------------
(* JavaScript values and string primitives *)

JsString(s) == [t |-> "string", v |-> s]
JsNull == [t |-> "null", v |-> ""]
JsUndefined == [t |-> "undefined", v |-> ""]
\* a number, carried as its decimal text
JsNumber(n) == [t |-> "number", v |-> n]

\* !x || typeof x !== "string"
NotAString(x) == x.t # "string" \/ x.v = ""

charAt(s, i) == SubSeq(s, i + 1, i + 1)

\* s.substring(from, to) for 0 <= from <= to <= s.length
substring(s, from, to) == SubSeq(s, from + 1, to)

\* s.indexOf(p): 0-based position of the first occurrence, -1 if none
indexOf(s, p) ==
  LET hits == {k \in 0..(Len(s) - Len(p)) : substring(s, k, k + Len(p)) = p}
  IN IF hits = {} THEN -1
     ELSE CHOOSE k \in hits : \A j \in hits : k <= j

includes(s, p) == indexOf(s, p) # -1

startsWith(s, p) == Len(s) >= Len(p) /\ substring(s, 0, Len(p)) = p

endsWith(s, p) == Len(s) >= Len(p) /\ substring(s, Len(s) - Len(p), Len(s)) = p

\* s.split(sep) for a one-character separator: always at least one token
RECURSIVE split(_, _)
split(s, sep) ==
  LET k == indexOf(s, sep)
  IN IF k = -1 THEN <<s>>
     ELSE <<substring(s, 0, k)>> \o split(substring(s, k + 1, Len(s)), sep)

\* tokens.join(sep)
RECURSIVE join(_, _)
join(tokens, sep) ==
  IF Len(tokens) = 0 THEN ""
  ELSE IF Len(tokens) = 1 THEN tokens[1]
  ELSE tokens[1] \o sep \o join(Tail(tokens), sep)

-----------------------------------------------------------------------------
(* decoder.ts *)

\* printable ASCII: codes 32..95 and 97..126 (a TLA+ string cannot hold the
\* grave accent, code 96, nor most control characters)
AsciiLow == " !\"#$%&'()*+,-./0123456789:;<=>?@ABCDEFGHIJKLMNOPQRSTUVWXYZ[\\]^_"
AsciiHigh == "abcdefghijklmnopqrstuvwxyz{|}~"

HexUpper == "0123456789ABCDEF"

\* A JavaScript string is a sequence of UTF-16 code units.  The codec below
\* works on such sequences, so that characters outside ASCII (and unpaired
\* surrogates) can be told apart; toUnits and fromUnits carry a TLA+ string
\* to and from its code units.

\* the characters a TLA+ string can hold, each with its code unit
CharCodes ==
  {<<SubSeq(AsciiLow, i, i), 31 + i>> : i \in 1..Len(AsciiLow)}
    \cup {<<SubSeq(AsciiHigh, i, i), 96 + i>> : i \in 1..Len(AsciiHigh)}
    \cup {<<"\t", 9>>, <<"\n", 10>>, <<"\r", 13>>}

CharCodeOf ==
  [c \in {p[1] : p \in CharCodes} |-> CHOOSE n \in 0..127 : <<c, n>> \in CharCodes]

\* s.charCodeAt(0) of a one-character string
charCodeAt(c) == CharCodeOf[c]

\* String.fromCharCode(unit); a character a TLA+ string cannot hold is
\* written as the escape \xHH (below 256) or \uHHHH
fromCharCode(unit) ==
  IF unit >= 32 /\ unit <= 95 THEN charAt(AsciiLow, unit - 32)
  ELSE IF unit >= 97 /\ unit <= 126 THEN charAt(AsciiHigh, unit - 97)
  ELSE IF unit = 9 THEN "\t"
  ELSE IF unit = 10 THEN "\n"
  ELSE IF unit = 13 THEN "\r"
  ELSE IF unit < 256
    THEN "\\x" \o charAt(HexUpper, unit \div 16) \o charAt(HexUpper, unit % 16)
  ELSE "\\u" \o charAt(HexUpper, unit \div 4096)
             \o charAt(HexUpper, (unit \div 256) % 16)
             \o charAt(HexUpper, (unit \div 16) % 16)
             \o charAt(HexUpper, unit % 16)

toUnits(s) == [i \in 1..Len(s) |-> charCodeAt(SubSeq(s, i, i))]

RECURSIVE fromUnits(_)
fromUnits(units) ==
  IF units = <<>> THEN ""
  ELSE IF Len(units) = 1 THEN fromCharCode(units[1])
  ELSE LET half == Len(units) \div 2
       IN fromUnits(SubSeq(units, 1, half))
            \o fromUnits(SubSeq(units, half + 1, Len(units)))

\* value of one hexadecimal digit given as a code unit, -1 if it is not one
hexVal(c) ==
  IF c >= 48 /\ c <= 57 THEN c - 48
  ELSE IF c >= 65 /\ c <= 70 THEN c - 55
  ELSE IF c >= 97 /\ c <= 102 THEN c - 87
  ELSE -1

\* the octet of the escape %XY that starts at position k (from 1), -1 if
\* there is no well-formed escape there
ParseHexOctet(units, k) ==
  IF Len(units) < k + 2 \/ units[k] # 37 THEN -1
  ELSE LET hi == hexVal(units[k + 1])
           lo == hexVal(units[k + 2])
       IN IF hi = -1 \/ lo = -1 THEN -1 ELSE hi * 16 + lo

\* the code units of a code point
UTF16EncodeCodePoint(cp) ==
  IF cp < 65536 THEN <<cp>>
  ELSE <<55296 + ((cp - 65536) \div 1024), 56320 + ((cp - 65536) % 1024)>>

\* the code point the UTF-8 octets stand for, -1 if they are no valid
\* encoding of one (a stray or missing continuation octet, an overlong form,
\* a surrogate, a value above 0x10FFFF)
UTF8Decode(octets) ==
  LET n == Len(octets)
      Cont(i) == octets[i] >= 128 /\ octets[i] <= 191
      cp == IF n = 2 THEN (octets[1] - 192) * 64 + (octets[2] - 128)
            ELSE IF n = 3 THEN (octets[1] - 224) * 4096 + (octets[2] - 128) * 64
                               + (octets[3] - 128)
            ELSE (octets[1] - 240) * 262144 + (octets[2] - 128) * 4096
                 + (octets[3] - 128) * 64 + (octets[4] - 128)
  IN IF \E i \in 2..n : ~Cont(i) THEN -1
     ELSE IF n = 2 /\ cp >= 128 THEN cp
     ELSE IF n = 3 /\ cp >= 2048 /\ ~(cp >= 55296 /\ cp <= 57343) THEN cp
     ELSE IF n = 4 /\ cp >= 65536 /\ cp <= 1114111 THEN cp
     ELSE -1

\* decodeURIComponent: a code unit other than '%' is kept; %XY below 0x80 is
\* that character; a lead octet announces a UTF-8 sequence of 2 to 4 escaped
\* octets, which becomes the code units of its code point.  Anything else
\* throws URIError (ok = FALSE).
RECURSIVE decodeURIComponent(_)
decodeURIComponent(units) ==
  IF units = <<>> THEN [ok |-> TRUE, v |-> <<>>]
  ELSE IF units[1] # 37
    THEN LET rest == decodeURIComponent(Tail(units))
         IN [ok |-> rest.ok, v |-> <<units[1]>> \o rest.v]
  ELSE
    LET B == ParseHexOctet(units, 1)
        n == IF B >= 192 /\ B <= 223 THEN 2
             ELSE IF B >= 224 /\ B <= 239 THEN 3
             ELSE IF B >= 240 /\ B <= 247 THEN 4
             ELSE 0
        Octets == [j \in 1..n |-> ParseHexOctet(units, 3 * (j - 1) + 1)]
        cp == UTF8Decode(Octets)
    IN IF B = -1 THEN [ok |-> FALSE, v |-> <<>>]
       ELSE IF B < 128
         THEN LET rest == decodeURIComponent(SubSeq(units, 4, Len(units)))
              IN [ok |-> rest.ok, v |-> <<B>> \o rest.v]
       ELSE IF n = 0 \/ cp = -1 THEN [ok |-> FALSE, v |-> <<>>]
       ELSE LET rest == decodeURIComponent(SubSeq(units, 3 * n + 1, Len(units)))
            IN [ok |-> rest.ok, v |-> UTF16EncodeCodePoint(cp) \o rest.v]

\* decodeParameter works on the code units of its argument.

\* mutation: the argument is decoded until decoding changes nothing
RECURSIVE decodeParameter_recursive(_)
decodeParameter_recursive(encoded) ==
  LET d == decodeURIComponent(encoded)
  IN IF encoded = <<>> THEN <<>>
     ELSE IF ~d.ok \/ d.v = encoded THEN encoded
     ELSE decodeParameter_recursive(d.v)

decodeParameter(encoded) ==
  IF encoded = <<>> THEN <<>>
  ELSE LET d == decodeURIComponent(encoded)
       IN IF d.ok THEN d.v ELSE encoded

\* decodeParameter(s) for a string written as a TLA+ string
decodeParameterString(s) == fromUnits(decodeParameter(toUnits(s)))

\* A-Z a-z 0-9 - _ . ! ~ * ' ( )
uriUnreserved(c) ==
  \/ c >= 65 /\ c <= 90
  \/ c >= 97 /\ c <= 122
  \/ c >= 48 /\ c <= 57
  \/ c \in {45, 95, 46, 33, 126, 42, 39, 40, 41}

\* the UTF-8 octets of a code point
UTF8Encode(cp) ==
  IF cp < 128 THEN <<cp>>
  ELSE IF cp < 2048 THEN <<192 + (cp \div 64), 128 + (cp % 64)>>
  ELSE IF cp < 65536
    THEN <<224 + (cp \div 4096), 128 + ((cp \div 64) % 64), 128 + (cp % 64)>>
  ELSE <<240 + (cp \div 262144), 128 + ((cp \div 4096) % 64),
         128 + ((cp \div 64) % 64), 128 + (cp % 64)>>

\* %XY with upper-case hexadecimal digits
escapeOctet(octet) ==
  <<37, charCodeAt(charAt(HexUpper, octet \div 16)),
        charCodeAt(charAt(HexUpper, octet % 16))>>

RECURSIVE escapeOctets(_)
escapeOctets(octets) ==
  IF octets = <<>> THEN <<>>
  ELSE escapeOctet(Head(octets)) \o escapeOctets(Tail(octets))

\* encodeURIComponent: an unreserved character is kept, any other code
\* point becomes the escapes of its UTF-8 octets; a surrogate that is not
\* half of a pair throws URIError (ok = FALSE).
RECURSIVE encodeURIComponent(_)
encodeURIComponent(units) ==
  IF units = <<>> THEN [ok |-> TRUE, v |-> <<>>]
  ELSE
    LET c == units[1]
        lead == c >= 55296 /\ c <= 56319
        trail == c >= 56320 /\ c <= 57343
        paired == lead /\ Len(units) >= 2
                       /\ units[2] >= 56320 /\ units[2] <= 57343
        cp == IF paired
              THEN (c - 55296) * 1024 + (units[2] - 56320) + 65536
              ELSE c
        rest == encodeURIComponent(
                  SubSeq(units, IF paired THEN 3 ELSE 2, Len(units)))
    IN IF uriUnreserved(c) THEN [ok |-> rest.ok, v |-> <<c>> \o rest.v]
       ELSE IF trail \/ (lead /\ ~paired) THEN [ok |-> FALSE, v |-> <<>>]
       ELSE [ok |-> rest.ok, v |-> escapeOctets(UTF8Encode(cp)) \o rest.v]

\* encodeParameter on the code units of its argument; ok = FALSE when the
\* call throws
encodeParameter(decoded) ==
  IF decoded = <<>> THEN [ok |-> TRUE, v |-> <<>>]
  ELSE encodeURIComponent(decoded)

-----------------------------------------------------------------------------
(* parser.ts *)

CRLFCRLF == "\r\n\r\n"
LFLF == "\n\n"

\* mutation: the body starts after whichever separator comes first
extractBodyFromRaw_earliestSeparator(r) ==
  IF NotAString(r) THEN ""
  ELSE
    LET crlfIndex == indexOf(r.v, CRLFCRLF)
        lfIndex == indexOf(r.v, LFLF)
        bodyStartIndex ==
          IF crlfIndex # -1 /\ (lfIndex = -1 \/ crlfIndex < lfIndex)
            THEN crlfIndex + 4
          ELSE IF lfIndex # -1 THEN lfIndex + 2
          ELSE -1
    IN IF bodyStartIndex = -1 THEN ""
       ELSE substring(r.v, bodyStartIndex, Len(r.v))

extractBodyFromRaw(r) ==
  IF NotAString(r) THEN ""
  ELSE
    LET crlfIndex == indexOf(r.v, CRLFCRLF)
        lfIndex == indexOf(r.v, LFLF)
        bodyStartIndex ==
          IF crlfIndex # -1 THEN crlfIndex + 4
          ELSE IF lfIndex # -1 THEN lfIndex + 2
          ELSE -1
    IN IF bodyStartIndex = -1 THEN ""
       ELSE substring(r.v, bodyStartIndex, Len(r.v))

\* mutation: the pair is split at its last '='
parsePair_lastEquals(pair) ==
  LET eqIndex == IF includes(pair, "=")
                 THEN CHOOSE i \in 0..(Len(pair) - 1) :
                        /\ charAt(pair, i) = "="
                        /\ ~includes(substring(pair, i + 1, Len(pair)), "=")
                 ELSE -1
      name == IF eqIndex = -1 THEN pair ELSE substring(pair, 0, eqIndex)
      value == IF eqIndex = -1 THEN "" ELSE substring(pair, eqIndex + 1, Len(pair))
  IN [name |-> name, decodedName |-> decodeParameterString(name),
      value |-> value, decodedValue |-> decodeParameterString(value)]

\* one ParsedParameter from one non-empty segment
parsePair(pair) ==
  LET eqIndex == indexOf(pair, "=")
      name == IF eqIndex = -1 THEN pair ELSE substring(pair, 0, eqIndex)
      value == IF eqIndex = -1 THEN "" ELSE substring(pair, eqIndex + 1, Len(pair))
  IN [name |-> name, decodedName |-> decodeParameterString(name),
      value |-> value, decodedValue |-> decodeParameterString(value)]

RECURSIVE parsePairs(_)
parsePairs(pairs) ==
  IF pairs = <<>> THEN <<>>
  ELSE IF Head(pairs) = "" THEN parsePairs(Tail(pairs))
  ELSE <<parsePair(Head(pairs))>> \o parsePairs(Tail(pairs))

parseUrlEncodedBody(body) ==
  IF body = "" THEN <<>>
  ELSE parsePairs(split(body, "&"))

\* mutation: the body is extracted whether or not a separator is present
parseJsfBody_alwaysExtract(body) ==
  IF NotAString(body) THEN [parameters |-> <<>>, rawBody |-> ""]
  ELSE
    LET actualBody == extractBodyFromRaw(body)
    IN [parameters |-> parseUrlEncodedBody(actualBody), rawBody |-> actualBody]

parseJsfBody(body) ==
  IF NotAString(body) THEN [parameters |-> <<>>, rawBody |-> ""]
  ELSE
    LET actualBody ==
          IF includes(body.v, CRLFCRLF) \/ includes(body.v, LFLF)
          THEN extractBodyFromRaw(body)
          ELSE body.v
    IN [parameters |-> parseUrlEncodedBody(actualBody), rawBody |-> actualBody]

-----------------------------------------------------------------------------
(* annotations.ts *)

JSF_ANNOTATIONS == <<
  <<"javax.faces.partial.ajax", "Indicates AJAX partial request - When 'true', only specified components are processed and rendered">>,
  <<"javax.faces.source", "Component that triggered the request - Client ID of the component that initiated the AJAX request">>,
  <<"javax.faces.partial.execute", "Components to process on server - Space-separated list of component IDs to execute during Apply Request Values, Process Validations, and Update Model phases">>,
  <<"javax.faces.partial.render", "Components to re-render on client - Space-separated list of component IDs whose markup should be returned in the response">>,
  <<"javax.faces.behavior.event", "Client behavior event type - The name of the behavior event that triggered this request (e.g., 'action', 'valueChange', 'click')">>,
  <<"javax.faces.partial.event", "Partial request event type - The DOM event that triggered the partial request (e.g., 'click', 'change', 'blur')">>,
  <<"javax.faces.ViewState", "Serialized server-side state - Contains the component tree state, can be stateful (server-side) or stateless (client-side encrypted)">>,
  <<"javax.faces.FormSignature", "Form signature for CSRF protection - Cryptographic signature to prevent Cross-Site Request Forgery attacks">>,
  <<"javax.faces.ClientWindow", "Client window identifier - Tracks browser tabs/windows for multi-window support in JSF 2.2+">>,
  <<"javax.faces.encodedURL", "Encoded URL for navigation - URL with view parameters and conversation state encoded">>,
  <<"javax.faces.resource", "Resource identifier - Identifies a JSF resource (CSS, JS, images) to be served by the ResourceHandler">>,
  <<"ln", "Resource library name - Groups related resources together (e.g., 'primefaces', 'css', 'js')">>,
  <<"v", "Resource version - Version number for cache busting and resource versioning">>,
  <<"javax.faces.validator.REQUIRED", "Required field validation - Indicates a required field validation message">>,
  <<"javax.faces.converter.STRING", "String converter - Converts between String and Object representations">>,
  <<"javax.faces.converter.DateTimeConverter.PATTERN", "Date/time pattern - Format pattern for date/time conversion">>,
  <<"jffi", "Faces Flow instance identifier - Tracks the current Faces Flow instance (JSF 2.2+)">>,
  <<"jffi.token", "Flow token - Security token for Faces Flow transitions">>,
  <<"cid", "Conversation ID - CDI conversation identifier for stateful conversations">>,
  <<"primefaces.resetvalues", "PrimeFaces reset values - Resets input components to their initial values">>,
  <<"primefaces.ignoreautoupdate", "PrimeFaces ignore auto-update - Prevents automatic update of components">> >>

SUBMIT_ANNOTATION == "Form submission marker - Indicates which form was submitted"

IMPLEMENTATION_INDICATORS == <<
  <<"com.sun.faces", "Mojarra (Oracle/Sun JSF Reference Implementation)">>,
  <<"org.apache.myfaces", "Apache MyFaces">>,
  <<"org.primefaces", "PrimeFaces Component Library">>,
  <<"org.richfaces", "RichFaces Component Library">>,
  <<"org.icefaces", "ICEfaces Component Library">> >>

\* JSF_ANNOTATIONS[paramName]: <<>> is undefined
getAnnotation(paramName) ==
  LET hit == {i \in DOMAIN JSF_ANNOTATIONS : JSF_ANNOTATIONS[i][1] = paramName}
  IN IF hit = {} THEN <<>>
     ELSE <<JSF_ANNOTATIONS[CHOOSE i \in hit : TRUE][2]>>

\* first entry, in table order, whose key the name contains: <<>> is none
implementationOf(paramName) ==
  LET hit == {i \in DOMAIN IMPLEMENTATION_INDICATORS :
                includes(paramName, IMPLEMENTATION_INDICATORS[i][1])}
  IN IF hit = {} THEN <<>>
     ELSE <<IMPLEMENTATION_INDICATORS[CHOOSE i \in hit : \A j \in hit : i <= j][2]>>

\* <<>> is undefined
RECURSIVE detectImplementation(_)
detectImplementation(paramNames) ==
  IF paramNames = <<>> THEN <<>>
  ELSE IF implementationOf(Head(paramNames)) # <<>>
    THEN implementationOf(Head(paramNames))
  ELSE detectImplementation(Tail(paramNames))

-----------------------------------------------------------------------------
(* detector.ts *)

STANDARD_JSF_PARAMS == <<
  "javax.faces.partial.ajax",
  "javax.faces.source",
  "javax.faces.partial.execute",
  "javax.faces.partial.render",
  "javax.faces.behavior.event",
  "javax.faces.partial.event",
  "javax.faces.ViewState",
  "javax.faces.ClientWindow",
  "javax.faces.FormSignature" >>

VERSION_INDICATORS == <<
  <<"javax.faces.ClientWindow", "JSF 2.2+ (Multi-window support)">>,
  <<"javax.faces.FormSignature", "JSF 2.2+ (CSRF protection)">>,
  <<"jffi", "JSF 2.2+ (Faces Flow)">>,
  <<"javax.faces.partial.ajax", "JSF 2.0+ (AJAX support)">>,
  <<"javax.faces.ViewState", "JSF 1.0+ (Core framework)">> >>

NoDetection == [isJsf |-> FALSE, confidence |-> "low", indicators |-> <<>>]

InSeq(x, sq) == \E i \in DOMAIN sq : sq[i] = x

\* the inner loop over Object.entries(VERSION_INDICATORS) for one name
RECURSIVE scanVersions(_, _, _)
scanVersions(decodedName, i, versionFeatures) ==
  IF i > Len(VERSION_INDICATORS) THEN versionFeatures
  ELSE scanVersions(decodedName, i + 1,
         IF decodedName = VERSION_INDICATORS[i][1]
            /\ ~InSeq(VERSION_INDICATORS[i][2], versionFeatures)
         THEN Append(versionFeatures, VERSION_INDICATORS[i][2])
         ELSE versionFeatures)

\* mutation: a component-ID name is an indicator as well
scanParameter_componentId(acc, decodedName) ==
  LET std == startsWith(decodedName, "javax.faces.")
      ind1 == IF std
              THEN Append(acc.indicators, "Standard JSF parameter: " \o decodedName)
              ELSE acc.indicators
      ind2 == IF endsWith(decodedName, "_SUBMIT")
              THEN Append(ind1, "Form submission marker: " \o decodedName)
              ELSE ind1
      ind3 == IF includes(decodedName, "j_id_")
              THEN Append(ind2, "Component ID: " \o decodedName)
              ELSE ind2
  IN [indicators |-> ind3,
      hasStandardJsf |-> acc.hasStandardJsf \/ std,
      hasAjax |-> acc.hasAjax \/ (std /\ decodedName = "javax.faces.partial.ajax"),
      hasViewState |-> acc.hasViewState \/ (std /\ decodedName = "javax.faces.ViewState"),
      versionFeatures |-> scanVersions(decodedName, 1, acc.versionFeatures)]

\* one iteration of the loop over the parameters
scanParameter(acc, decodedName) ==
  LET std == startsWith(decodedName, "javax.faces.")
      ind1 == IF std
              THEN Append(acc.indicators, "Standard JSF parameter: " \o decodedName)
              ELSE acc.indicators
      ind2 == IF endsWith(decodedName, "_SUBMIT")
              THEN Append(ind1, "Form submission marker: " \o decodedName)
              ELSE ind1
  IN [indicators |-> ind2,
      hasStandardJsf |-> acc.hasStandardJsf \/ std,
      hasAjax |-> acc.hasAjax \/ (std /\ decodedName = "javax.faces.partial.ajax"),
      hasViewState |-> acc.hasViewState \/ (std /\ decodedName = "javax.faces.ViewState"),
      versionFeatures |-> scanVersions(decodedName, 1, acc.versionFeatures)]

RECURSIVE scanParameters(_, _)
scanParameters(acc, parameters) ==
  IF parameters = <<>> THEN acc
  ELSE scanParameters(scanParameter(acc, Head(parameters).decodedName),
                      Tail(parameters))

\* mutation: the confidence is chosen without looking at isJsf
verdict_unguarded(indicators, hasStandardJsf) ==
  [isJsf |-> Len(indicators) > 0,
   confidence |-> IF hasStandardJsf THEN "high" ELSE "medium",
   indicators |-> indicators]

\* isJsf and confidence from the collected indicators
verdict(indicators, hasStandardJsf) ==
  LET detected == Len(indicators) > 0
  IN [isJsf |-> detected,
      confidence |-> IF detected
                     THEN (IF hasStandardJsf THEN "high" ELSE "medium")
                     ELSE "low",
      indicators |-> indicators]

\* mutation: the request type is a postback whenever a view state was seen
detectParameters_postbackFirst(parameters) ==
  LET paramNames == [i \in DOMAIN parameters |-> parameters[i].decodedName]
      acc == scanParameters([indicators |-> <<>>, hasStandardJsf |-> FALSE,
                             hasAjax |-> FALSE, hasViewState |-> FALSE,
                             versionFeatures |-> <<>>], parameters)
      implementation == detectImplementation(paramNames)
      ind3 == IF implementation # <<>>
              THEN Append(acc.indicators, "Implementation: " \o implementation[1])
              ELSE acc.indicators
      ind4 == IF Len(acc.versionFeatures) > 0
              THEN Append(ind3, "Version features: " \o join(acc.versionFeatures, ", "))
              ELSE ind3
      indicators == IF acc.hasViewState
                    THEN Append(ind4, "Request type: Full Page Postback")
                    ELSE IF acc.hasAjax
                    THEN Append(ind4, "Request type: AJAX Partial Request")
                    ELSE ind4
  IN IF Len(parameters) = 0 THEN NoDetection
     ELSE verdict(indicators, acc.hasStandardJsf)

\* the body of the try block, after the parameters are parsed.  Nothing in
\* it can throw (decodeParameter catches the only exception, URIError), so
\* the catch clause has no behaviour of its own.
detectParameters(parameters) ==
  LET paramNames == [i \in DOMAIN parameters |-> parameters[i].decodedName]
      acc == scanParameters([indicators |-> <<>>, hasStandardJsf |-> FALSE,
                             hasAjax |-> FALSE, hasViewState |-> FALSE,
                             versionFeatures |-> <<>>], parameters)
      implementation == detectImplementation(paramNames)
      ind3 == IF implementation # <<>>
              THEN Append(acc.indicators, "Implementation: " \o implementation[1])
              ELSE acc.indicators
      ind4 == IF Len(acc.versionFeatures) > 0
              THEN Append(ind3, "Version features: " \o join(acc.versionFeatures, ", "))
              ELSE ind3
      indicators == IF acc.hasAjax
                    THEN Append(ind4, "Request type: AJAX Partial Request")
                    ELSE IF acc.hasViewState
                    THEN Append(ind4, "Request type: Full Page Postback")
                    ELSE ind4
  IN IF Len(parameters) = 0 THEN NoDetection
     ELSE verdict(indicators, acc.hasStandardJsf)

\* mutation: the early return for a missing input reports medium confidence
detectJsf_mediumOnMissing(r) ==
  IF NotAString(r)
  THEN [isJsf |-> FALSE, confidence |-> "medium", indicators |-> <<>>]
  ELSE detectParameters(parseJsfBody(r).parameters)

detectJsf(r) ==
  IF NotAString(r) THEN NoDetection
  ELSE detectParameters(parseJsfBody(r).parameters)

isJsfRequest(r) == detectJsf(r).isJsf

-----------------------------------------------------------------------------
(* componentId.ts *)

Digits == "0123456789"

\* mutation: the pattern is /^\d*$/, which the empty token also matches
isNumeric_star(part) ==
  \A i \in 0..(Len(part) - 1) : includes(Digits, charAt(part, i))

\* /^\d+$/.test(part)
isNumeric(part) ==
  /\ Len(part) > 0
  /\ \A i \in 0..(Len(part) - 1) : includes(Digits, charAt(part, i))

\* mutation: empty tokens are dropped before the levels are built
parseComponentId_dropEmpty(x) ==
  IF NotAString(x) THEN <<>>
  ELSE
    LET parts == SelectSeq(split(x.v, ":"), LAMBDA part : part # "")
    IN [index \in DOMAIN parts |->
          [id |-> parts[index],
           type |-> IF isNumeric(parts[index]) THEN "index" ELSE "component",
           depth |-> index - 1]]

parseComponentId(x) ==
  IF NotAString(x) THEN <<>>
  ELSE
    LET parts == split(x.v, ":")
    IN [index \in DOMAIN parts |->
          [id |-> parts[index],
           type |-> IF isNumeric(parts[index]) THEN "index"
                    ELSE IF parts[index] # "" THEN "component"
                    ELSE "unknown",
           depth |-> index - 1]]

formatComponentIdTree(lvls) ==
  IF Len(lvls) = 0 THEN ""
  ELSE join([i \in DOMAIN lvls |-> lvls[i].id], ":")

-----------------------------------------------------------------------------
(* viewstate.ts: the View-State Analyzer *)

JAVA_SERIALIZATION_MAGIC == <<172, 237>>

Base64Chars == "ABCDEFGHIJKLMNOPQRSTUVWXYZabcdefghijklmnopqrstuvwxyz0123456789+/"

\* the value of every base64 character
Base64Index ==
  [c \in {SubSeq(Base64Chars, i, i) : i \in 1..Len(Base64Chars)} |->
     indexOf(Base64Chars, c)]

\* the decoded bytes of a padding-free run of base64 characters: three bytes
\* per four characters, and one or two bytes for two or three characters
\* left over
base64Bytes(s) ==
  LET n == (Len(s) \div 4) * 3
             + (IF Len(s) % 4 = 2 THEN 1 ELSE IF Len(s) % 4 = 3 THEN 2 ELSE 0)
      sextet(i) == Base64Index[charAt(s, i)]
  IN [k \in 1..n |->
        LET g == (k - 1) \div 3
            r == (k - 1) % 3
            a == sextet(4 * g + r)
            b == sextet(4 * g + r + 1)
        IN IF r = 0 THEN a * 4 + b \div 16
           ELSE IF r = 1 THEN (a % 16) * 16 + b \div 4
           ELSE (a % 4) * 64 + b]

\* atob (forgiving-base64 decode) of a string without ASCII whitespace: the
\* char codes of the decoded binary string, or a thrown InvalidCharacterError
atob(value) ==
  LET unpadded ==
        IF Len(value) % 4 = 0 /\ endsWith(value, "==")
          THEN substring(value, 0, Len(value) - 2)
        ELSE IF Len(value) % 4 = 0 /\ endsWith(value, "=")
          THEN substring(value, 0, Len(value) - 1)
        ELSE value
  IN IF Len(unpadded) % 4 = 1
        \/ \E i \in 0..(Len(unpadded) - 1) : charAt(unpadded, i) \notin DOMAIN Base64Index
     THEN [ok |-> FALSE, bytes |-> <<>>]
     ELSE [ok |-> TRUE, bytes |-> base64Bytes(unpadded)]

\* /^[A-Za-z0-9+/]*={0,2}$/.test(value)
base64Regex(value) ==
  \E pad \in 0..2 :
    /\ pad <= Len(value)
    /\ \A i \in 0..(Len(value) - 1) :
         IF i < Len(value) - pad THEN charAt(value, i) \in DOMAIN Base64Index
         ELSE charAt(value, i) = "="

\* mutation: the length is not required to be a multiple of 4
isBase64_anyLength(value) ==
  IF value = "" THEN FALSE
  ELSE IF ~base64Regex(value) THEN FALSE
  ELSE atob(value).ok /\ Len(atob(value).bytes) > 0

isBase64(value) ==
  IF value = "" THEN FALSE
  ELSE IF ~base64Regex(value) THEN FALSE
  ELSE IF Len(value) % 4 # 0 THEN FALSE
  ELSE atob(value).ok /\ Len(atob(value).bytes) > 0

\* mutation: only the first byte is compared with the magic bytes
detectSerializedJava_firstByteOnly(decoded) ==
  IF Len(decoded) < 2 THEN FALSE
  ELSE decoded[1] = JAVA_SERIALIZATION_MAGIC[1]

detectSerializedJava(decoded) ==
  IF Len(decoded) < 2 THEN FALSE
  ELSE decoded[1] = JAVA_SERIALIZATION_MAGIC[1] /\ decoded[2] = JAVA_SERIALIZATION_MAGIC[2]

\* decodedContent: <<>> is null, <<bytes>> the decoded binary string
analyzeViewState(value) ==
  IF value = ""
  THEN [encoding |-> "unknown", decodedContent |-> <<>>, isSerializedJava |-> FALSE,
        warnings |-> <<"ViewState value is empty or invalid">>]
  ELSE IF isBase64(value)
  THEN LET decoded == atob(value)
       IN IF ~decoded.ok
          THEN [encoding |-> "base64", decodedContent |-> <<>>,
                isSerializedJava |-> FALSE,
                warnings |-> <<"Failed to decode Base64 ViewState">>]
          ELSE [encoding |-> "base64", decodedContent |-> <<decoded.bytes>>,
                isSerializedJava |-> detectSerializedJava(decoded.bytes),
                warnings |-> IF detectSerializedJava(decoded.bytes)
                  THEN <<"ViewState contains serialized Java object - potential deserialization vulnerability">>
                  ELSE <<>>]
  ELSE [encoding |-> "encrypted", decodedContent |-> <<>>, isSerializedJava |-> FALSE,
        warnings |-> <<"ViewState is not Base64 encoded - likely encrypted or using custom encoding">>]

-----------------------------------------------------------------------------
(* categorizer.ts *)

\* the categorizer's own parseComponentId ("placeholder")
categorizerParseComponentId(name) ==
  <<[id |-> name, type |-> "unknown", depth |-> 0]>>

\* the categorizer's own analyzeViewState ("placeholder")
categorizerAnalyzeViewState(value) ==
  [encoding |-> "unknown", decodedContent |-> <<>>, isSerializedJava |-> FALSE,
   warnings |-> <<>>]

\* mutation: any name that mentions faces is a standard parameter
isStandardJsfParameter_contains(name) == includes(name, "faces")

isStandardJsfParameter(name) == startsWith(name, "javax.faces.")

isComponentIdParameter(name) == includes(name, "j_id_")

isFormSubmitParameter(name) == endsWith(name, "_SUBMIT")

isViewStateParameter(name) == name = "javax.faces.ViewState"

\* { ...param, <extra fields> }
Spread(param, extra) ==
  [f \in (DOMAIN param) \cup (DOMAIN extra) |->
     IF f \in DOMAIN extra THEN extra[f] ELSE param[f]]

\* mutation: the form-submit test runs before the component-id test
categorizeParameter_submitFirst(param) ==
  IF isViewStateParameter(param.decodedName)
  THEN Spread(param, [category |-> "viewstate", encoding |-> "unknown",
                      decodedContent |-> <<>>, warnings |-> <<>>])
  ELSE IF isStandardJsfParameter(param.decodedName)
  THEN Spread(param, [category |-> "standard-jsf", annotation |-> ""])
  ELSE IF isFormSubmitParameter(param.decodedName)
  THEN Spread(param, [category |-> "form-submit", annotation |-> SUBMIT_ANNOTATION])
  ELSE IF isComponentIdParameter(param.decodedName)
  THEN Spread(param, [category |-> "component-id",
                      hierarchy |-> categorizerParseComponentId(param.decodedName)])
  ELSE Spread(param, [category |-> "custom"])

categorizeParameter(param) ==
  IF isViewStateParameter(param.decodedName)
  THEN LET analysis == categorizerAnalyzeViewState(param.decodedValue)
       IN Spread(param, [category |-> "viewstate",
                         encoding |-> analysis.encoding,
                         decodedContent |-> analysis.decodedContent,
                         warnings |-> analysis.warnings])
  ELSE IF isStandardJsfParameter(param.decodedName)
  THEN LET annotation == getAnnotation(param.decodedName)
       IN Spread(param, [category |-> "standard-jsf",
                         annotation |-> IF annotation # <<>> /\ annotation[1] # ""
                                        THEN annotation[1] ELSE ""])
  ELSE IF isComponentIdParameter(param.decodedName)
  THEN Spread(param, [category |-> "component-id",
                      hierarchy |-> categorizerParseComponentId(param.decodedName)])
  ELSE IF isFormSubmitParameter(param.decodedName)
  THEN Spread(param, [category |-> "form-submit", annotation |-> SUBMIT_ANNOTATION])
  ELSE Spread(param, [category |-> "custom"])

\* mutation: the "custom" case of the switch is missing
bucket_noCustomCase(result, categorized) ==
  IF categorized.category = "standard-jsf"
    THEN [result EXCEPT !.standardJsf = Append(@, categorized)]
  ELSE IF categorized.category = "component-id"
    THEN [result EXCEPT !.componentIds = Append(@, categorized)]
  ELSE IF categorized.category = "viewstate"
    THEN [result EXCEPT !.viewState = <<categorized>>]
  ELSE IF categorized.category = "form-submit"
    THEN [result EXCEPT !.formSubmit = Append(@, categorized)]
  ELSE result

\* mutation: a view-state parameter is stored only while the slot is null
bucket_firstViewStateWins(result, categorized) ==
  IF categorized.category = "standard-jsf"
    THEN [result EXCEPT !.standardJsf = Append(@, categorized)]
  ELSE IF categorized.category = "component-id"
    THEN [result EXCEPT !.componentIds = Append(@, categorized)]
  ELSE IF categorized.category = "viewstate"
    THEN (IF result.viewState = <<>>
          THEN [result EXCEPT !.viewState = <<categorized>>]
          ELSE result)
  ELSE IF categorized.category = "form-submit"
    THEN [result EXCEPT !.formSubmit = Append(@, categorized)]
  ELSE IF categorized.category = "custom"
    THEN [result EXCEPT !.custom = Append(@, categorized)]
  ELSE result

\* one iteration of the loop: the switch on the category
bucket(result, categorized) ==
  IF categorized.category = "standard-jsf"
    THEN [result EXCEPT !.standardJsf = Append(@, categorized)]
  ELSE IF categorized.category = "component-id"
    THEN [result EXCEPT !.componentIds = Append(@, categorized)]
  ELSE IF categorized.category = "viewstate"
    THEN [result EXCEPT !.viewState = <<categorized>>]
  ELSE IF categorized.category = "form-submit"
    THEN [result EXCEPT !.formSubmit = Append(@, categorized)]
  ELSE IF categorized.category = "custom"
    THEN [result EXCEPT !.custom = Append(@, categorized)]
  ELSE result

\* Objects have an identity: the heap is the sequence of the objects there
\* are, an object's reference its position.  The input array holds the
\* references 1..params.length.

\* mutation: Object.assign(param, { ... }) writes the fields into the input
\* object and returns it
copyOf_assign(heap, ref, fields) ==
  [heap |-> [heap EXCEPT ![ref] = fields], ref |-> ref]

\* { ...param, ... }: an object literal makes a new object, whose fields are
\* those categorizeParameter computed from the object at ref
copyOf(heap, ref, fields) ==
  [heap |-> Append(heap, fields), ref |-> Len(heap) + 1]

\* the loop over the input array, refs being the references it still has
\* to visit; result holds, per bucket, the category and the reference of
\* each categorized object
RECURSIVE categorizeLoop(_, _, _)
categorizeLoop(heap, result, refs) ==
  IF refs = <<>> THEN [heap |-> heap, result |-> result]
  ELSE LET made == copyOf(heap, Head(refs), categorizeParameter(heap[Head(refs)]))
           categorized == [category |-> made.heap[made.ref].category,
                           ref |-> made.ref]
       IN categorizeLoop(made.heap, bucket(result, categorized), Tail(refs))

\* viewState: <<>> is null
EmptyCategories ==
  [standardJsf |-> <<>>, componentIds |-> <<>>, viewState |-> <<>>,
   formSubmit |-> <<>>, custom |-> <<>>]

Buckets == {"standardJsf", "componentIds", "viewState", "formSubmit", "custom"}

\* categorizeParameters on the heap that holds the input objects: the heap
\* after the call and the references the result holds
categorizeObjects(params) ==
  LET out == categorizeLoop(params, EmptyCategories,
                            [i \in DOMAIN params |-> i])
  IN [heap |-> out.heap,
      refs |-> [b \in Buckets |->
                  [k \in DOMAIN out.result[b] |-> out.result[b][k].ref]]]

\* the result, with the objects behind the references
categorizeParameters(params) ==
  LET out == categorizeObjects(params)
  IN [b \in DOMAIN out.refs |->
        [k \in DOMAIN out.refs[b] |-> out.heap[out.refs[b][k]]]]

-----------------------------------------------------------------------------
(* valueAnalyzer.ts: the Value Explainer.  A ValueAnalysis is a record     *)
(* [type, explanation, details, warning], warning being <<>> when          *)
(* undefined; the result of analyzeValue is <<>> (null) or <<analysis>>.   *)

\* the decimal digits of a natural number, as a template literal prints it
RECURSIVE numberToString(_)
numberToString(n) ==
  IF n < 10 THEN charAt(Digits, n)
  ELSE numberToString(n \div 10) \o charAt(Digits, n % 10)

\* (n / 1024).toFixed(2): n / 1024 rounded to hundredths, half up
sizeKB(n) ==
  LET hundredths == (n * 200 + 1024) \div 2048
  IN numberToString(hundredths \div 100) \o "."
       \o charAt(Digits, (hundredths \div 10) % 10)
       \o charAt(Digits, hundredths % 10)

UpperCaseLetters == "ABCDEFGHIJKLMNOPQRSTUVWXYZ"
LowerCaseLetters == "abcdefghijklmnopqrstuvwxyz"

RECURSIVE toLowerCase(_)
toLowerCase(s) ==
  IF s = "" THEN ""
  ELSE IF Len(s) = 1
    THEN (IF includes(UpperCaseLetters, s)
          THEN charAt(LowerCaseLetters, indexOf(UpperCaseLetters, s))
          ELSE s)
  ELSE LET half == Len(s) \div 2
       IN toLowerCase(substring(s, 0, half))
            \o toLowerCase(substring(s, half, Len(s)))

\* the characters \s matches, of those a TLA+ string can hold
WhiteSpace == {" ", "\t", "\n", "\r"}

\* value.split(/\s+/).filter(c => c.length > 0): the maximal runs of
\* characters that are not white space, in order
splitWhiteSpace(s) ==
  LET blank(i) == charAt(s, i) \in WhiteSpace
      starts == {i \in 0..(Len(s) - 1) : ~blank(i) /\ (i = 0 \/ blank(i - 1))}
      start(k) == CHOOSE i \in starts :
                    Cardinality({j \in starts : j < i}) = k - 1
      end(i) == IF \E j \in i..(Len(s) - 1) : blank(j)
                THEN CHOOSE j \in i..(Len(s) - 1) :
                       blank(j) /\ \A m \in i..(j - 1) : ~blank(m)
                ELSE Len(s)
  IN [k \in 1..Cardinality(starts) |-> substring(s, start(k), end(start(k)))]

\* the own properties of specialKeywords
specialKeywords ==
  << <<"@all", "All components on the page">>,
     <<"@form", "All components in the current form">>,
     <<"@this", "Only the component that triggered the request">>,
     <<"@none", "No components">> >>

\* the properties specialKeywords inherits from Object.prototype, each with
\* the text its value has in a template literal
inheritedProperties ==
  << <<"constructor", "function Object() { [native code] }">>,
     <<"__proto__", "[object Object]">>,
     <<"hasOwnProperty", "function hasOwnProperty() { [native code] }">>,
     <<"isPrototypeOf", "function isPrototypeOf() { [native code] }">>,
     <<"propertyIsEnumerable", "function propertyIsEnumerable() { [native code] }">>,
     <<"toLocaleString", "function toLocaleString() { [native code] }">>,
     <<"toString", "function toString() { [native code] }">>,
     <<"valueOf", "function valueOf() { [native code] }">>,
     <<"__defineGetter__", "function __defineGetter__() { [native code] }">>,
     <<"__defineSetter__", "function __defineSetter__() { [native code] }">>,
     <<"__lookupGetter__", "function __lookupGetter__() { [native code] }">>,
     <<"__lookupSetter__", "function __lookupSetter__() { [native code] }">> >>

\* specialKeywords[comp]: <<>> when undefined, else <<its text>>
keywordLookup(comp) ==
  LET all == specialKeywords \o inheritedProperties
      hits == {i \in DOMAIN all : all[i][1] = comp}
  IN IF hits = {} THEN <<>> ELSE <<all[CHOOSE i \in hits : TRUE][2]>>

analyzeAjaxValue(value) ==
  LET isAjax == toLowerCase(value) = "true"
  IN [type |-> "Boolean Flag",
      explanation |->
        IF isAjax
        THEN "This is an AJAX partial request - only specified components will be processed and updated"
        ELSE "This is a full page postback - entire page will be processed and refreshed",
      details |->
        IF isAjax
        THEN <<"Only components in 'execute' list are processed",
               "Only components in 'render' list are updated in response",
               "Faster than full page refresh",
               "Network traffic is reduced">>
        ELSE <<"All components on the page are processed",
               "Entire page is refreshed",
               "ViewState is updated for all components">>,
      warning |-> <<>>]

\* the arrow and the bullet of the detail lines are written as the escapes
\* \u2192 and \u2022
analyzeComponentList(value, paramName) ==
  LET components == splitWhiteSpace(value)
      isExecute == includes(paramName, "execute")
      keywords == SelectSeq(components, LAMBDA comp : keywordLookup(comp) # <<>>)
      regularComponents ==
        SelectSeq(components, LAMBDA comp : keywordLookup(comp) = <<>>)
      keywordDetails ==
        [i \in DOMAIN keywords |->
           keywords[i] \o " \\u2192 " \o keywordLookup(keywords[i])[1]]
      regularDetails ==
        IF Len(regularComponents) > 0
        THEN <<"Specific components: " \o numberToString(Len(regularComponents))
                 \o " component(s)">>
               \o [i \in DOMAIN regularComponents |->
                     "  \\u2022 " \o regularComponents[i]]
        ELSE <<>>
  IN [type |-> "Component List",
      explanation |->
        IF isExecute
        THEN "Specifies which components to process during server-side lifecycle ("
               \o numberToString(Len(components)) \o " item(s))"
        ELSE "Specifies which components to update in the client after processing ("
               \o numberToString(Len(components)) \o " item(s))",
      details |-> keywordDetails \o regularDetails,
      warning |-> <<>>]

analyzeComponentId(value) ==
  LET parts == split(value, ":")
      details ==
        IF Len(parts) > 1
        THEN <<"Component hierarchy depth: " \o numberToString(Len(parts)) \o " level(s)">>
               \o [idx \in DOMAIN parts |->
                     "  Level " \o numberToString(idx) \o ": " \o parts[idx]
                       \o (IF startsWith(parts[idx], "j_id")
                           THEN " (auto-generated ID)"
                           ELSE " (developer-defined ID)")]
        ELSE IF startsWith(value, "j_id")
        THEN <<"Auto-generated component ID (no explicit ID set by developer)">>
        ELSE <<"Developer-defined component ID">>
  IN [type |-> "Component Identifier",
      explanation |-> "Identifies a specific JSF component in the component tree",
      details |-> details,
      warning |-> <<>>]

\* /^[A-Za-z0-9+/]+=*$/.test(str)
\* (a base64 character first, then base64 characters and '=' only, and
\* nothing but '=' after a '=')
base64Pattern(str) ==
  /\ charAt(str, 0) \in DOMAIN Base64Index
  /\ \A i \in 0..(Len(str) - 1) :
       \/ charAt(str, i) \in DOMAIN Base64Index
       \/ charAt(str, i) = "="
  /\ \A i \in 0..(Len(str) - 2) :
       charAt(str, i) = "=" => charAt(str, i + 1) = "="

\* the isBase64 of valueAnalyzer.ts
valueAnalyzerIsBase64(str) ==
  IF str = "" \/ Len(str) < 4 THEN FALSE
  ELSE base64Pattern(str) /\ Len(str) % 4 = 0

\* the analyzeViewState of valueAnalyzer.ts
valueAnalyzerAnalyzeViewState(value) ==
  LET encodingDetails ==
        IF valueAnalyzerIsBase64(value)
        THEN <<"Encoding: Base64">>
               \o (IF Len(value) > 100
                   THEN <<"Likely encrypted or compressed",
                          "Contains serialized component tree state">>
                   ELSE <<"Short ViewState - possibly stateless mode">>)
        ELSE IF startsWith(value, "stateless")
        THEN <<"Stateless mode enabled",
               "No server-side state stored",
               "State is reconstructed on each request">>
        ELSE <<"Custom ViewState format">>
      shortWarning ==
        IF valueAnalyzerIsBase64(value) /\ ~(Len(value) > 100)
        THEN <<"Short ViewState may indicate client-side state storage">>
        ELSE <<>>
  IN [type |-> "ViewState",
      explanation |-> "Contains the serialized state of the JSF component tree",
      details |-> encodingDetails
                    \o <<"Size: " \o numberToString(Len(value)) \o " bytes ("
                           \o sizeKB(Len(value)) \o " KB)">>,
      warning |-> IF Len(value) > 10000
                  THEN <<"Large ViewState detected - may impact performance and bandwidth">>
                  ELSE shortWarning]

analyzeClientWindow(value) ==
  [type |-> "Client Window ID",
   explanation |-> "Unique identifier for this browser tab/window",
   details |-> <<"Enables multi-window support (JSF 2.2+)",
                 "Tracks state separately for each browser tab",
                 "Prevents state conflicts between tabs",
                 "Window ID: " \o value>>,
   warning |-> <<>>]

\* /^[\x20-\x7E\s]*$/.test(decoded), decoded being a binary string
printable(bytes) ==
  \A i \in DOMAIN bytes :
    \/ bytes[i] >= 32 /\ bytes[i] <= 126
    \/ bytes[i] \in {9, 10, 11, 12, 13, 160}

analyzeBase64Value(value) ==
  LET decoded == atob(value)
      details ==
        IF ~decoded.ok THEN <<"Not valid Base64 or contains special encoding">>
        ELSE <<"Decoded length: " \o numberToString(Len(decoded.bytes)) \o " bytes">>
               \o (IF printable(decoded.bytes)
                   THEN <<"Contains readable text data">>
                          \o (IF Len(decoded.bytes) < 200
                              THEN <<"Decoded value: " \o fromUnits(decoded.bytes)>>
                              ELSE <<>>)
                   ELSE <<"Contains binary or encrypted data">>)
  IN [type |-> "Base64 Encoded",
      explanation |-> "Value is Base64 encoded",
      details |-> details,
      warning |-> <<>>]

\* mutation: the default case is tried before the switch on the name
analyzeValue_fallbackFirst(paramName, value) ==
  IF value = "" THEN <<>>
  ELSE IF includes(value, "j_id") \/ includes(value, ":")
    THEN <<analyzeComponentId(value)>>
  ELSE IF valueAnalyzerIsBase64(value) THEN <<analyzeBase64Value(value)>>
  ELSE IF paramName = "javax.faces.partial.ajax" THEN <<analyzeAjaxValue(value)>>
  ELSE IF paramName \in {"javax.faces.partial.execute", "javax.faces.partial.render"}
    THEN <<analyzeComponentList(value, paramName)>>
  ELSE IF paramName = "javax.faces.source" THEN <<analyzeComponentId(value)>>
  ELSE IF paramName = "javax.faces.ViewState"
    THEN <<valueAnalyzerAnalyzeViewState(value)>>
  ELSE IF paramName = "javax.faces.ClientWindow" THEN <<analyzeClientWindow(value)>>
  ELSE <<>>

analyzeValue(paramName, value) ==
  IF value = "" THEN <<>>
  ELSE IF paramName = "javax.faces.partial.ajax" THEN <<analyzeAjaxValue(value)>>
  ELSE IF paramName \in {"javax.faces.partial.execute", "javax.faces.partial.render"}
    THEN <<analyzeComponentList(value, paramName)>>
  ELSE IF paramName = "javax.faces.source" THEN <<analyzeComponentId(value)>>
  ELSE IF paramName = "javax.faces.ViewState"
    THEN <<valueAnalyzerAnalyzeViewState(value)>>
  ELSE IF paramName = "javax.faces.ClientWindow" THEN <<analyzeClientWindow(value)>>
  ELSE IF includes(value, "j_id") \/ includes(value, ":")
    THEN <<analyzeComponentId(value)>>
  ELSE IF valueAnalyzerIsBase64(value) THEN <<analyzeBase64Value(value)>>
  ELSE <<>>

-----------------------------------------------------------------------------
(* Security highlighter (views/JsfViewMode.vue)                            *)

\* the characters of s, as a set
Chars(s) == {charAt(s, i) : i \in 0..(Len(s) - 1)}

\* the characters a scanned text is made of
TextChars == Chars(AsciiLow) \cup Chars(AsciiHigh) \cup {"\t", "\n", "\r"}

\* \w
word == Chars(UpperCaseLetters) \cup Chars(LowerCaseLetters) \cup Chars(Digits) \cup {"_"}

\* A regular expression is a sequence of elements: a literal text (lit), a
\* character class with a repetition count (rep: greedy unless lazy), an
\* alternation of sub-expressions tried in order (alt), or the assertion \b
\* (wb).  A pattern with the flag i compares the canonical forms of its
\* characters and the text's: the text is put in lower case by the scan, the
\* pattern here.
RECURSIVE ignoreCase(_)
ignoreCase(elems) ==
  [n \in DOMAIN elems |->
     LET e == elems[n]
     IN CASE e.k = "lit" -> [e EXCEPT !.s = toLowerCase(e.s)]
          [] e.k = "rep" -> [e EXCEPT !.cls = {toLowerCase(c) : c \in e.cls}]
          [] e.k = "alt" ->
               [e EXCEPT !.alts = [i \in DOMAIN e.alts |-> ignoreCase(e.alts[i])]]
          [] e.k = "wb" -> e]

\* The pattern table, in the order of Object.entries(SECURITY_PATTERNS)
SECURITY_PATTERNS ==
  LET Lit(s) == [k |-> "lit", s |-> s]
      Rep(cls, min, max) ==
        [k |-> "rep", cls |-> cls, min |-> min, max |-> max,
         unbounded |-> FALSE, lazy |-> FALSE]
      AtLeast(cls, min) ==
        [k |-> "rep", cls |-> cls, min |-> min, max |-> min,
         unbounded |-> TRUE, lazy |-> FALSE]
      Star(cls) == AtLeast(cls, 0)
      Plus(cls) == AtLeast(cls, 1)
      Optional(cls) == Rep(cls, 0, 1)
      LazyStar(cls) ==
        [k |-> "rep", cls |-> cls, min |-> 0, max |-> 0,
         unbounded |-> TRUE, lazy |-> TRUE]
      Alt(alts) == [k |-> "alt", alts |-> alts]
      Lits(words) == Alt([i \in DOMAIN words |-> <<Lit(words[i])>>])
      WordBoundary == [k |-> "wb"]
      digit == Chars(Digits)                                      \* \d
      upper == Chars(UpperCaseLetters)                            \* [A-Z]
      letter == upper \cup Chars(LowerCaseLetters)                \* [a-zA-Z]
      space == WhiteSpace                                         \* \s
      dot == TextChars \ {"\n", "\r"}                             \* .
      Not(cls) == TextChars \ cls                                 \* [^...]
      PatternDefinition(elems, flags, severity) ==
        [pattern |-> elems, flags |-> flags, severity |-> severity]
      NotSpaceOrMarkup == Not(space \cup {"<", ">", "\"", "'"})        \* [^\s<>"']
      NotMarkup == Not({"<", ">", "\"", "'"})                           \* [^<>"']

      sqlPatterns ==
        << PatternDefinition(<<Lit("SQL"), Star(space), Lit("syntax")>>, "i", "high"),
           PatternDefinition(<<Lit("ORA-"), Plus(digit)>>, "i", "high"),
           PatternDefinition(<<Lit("mysql"), Star(dot), Lit("error")>>, "i", "high"),
           PatternDefinition(<<Lit("syntax"), Star(dot), Lit("near")>>, "i", "high"),
           PatternDefinition(<<Lit("SELECT"), Plus(space), Rep(dot, 1, 50),
                               Plus(space), Lit("FROM")>>, "i", "medium"),
           PatternDefinition(<<Lit("INSERT"), Plus(space), Lit("INTO")>>, "i", "medium"),
           PatternDefinition(<<Lit("UPDATE"), Plus(space), Plus(word), Plus(space),
                               Lit("SET")>>, "i", "medium"),
           PatternDefinition(<<Lit("DELETE"), Plus(space), Lit("FROM")>>, "i", "medium"),
           PatternDefinition(<<Lit("UNION"), Plus(space), Lit("SELECT")>>, "i", "high"),
           PatternDefinition(<<Lit("postgresql"), Star(dot), Lit("error")>>, "i", "high"),
           PatternDefinition(<<Lit("sqlite"), Star(dot), Lit("error")>>, "i", "high"),
           PatternDefinition(<<Lit("SQLSTATE[")>>, "i", "high") >>

      pathPatterns ==
        << PatternDefinition(<<Lit("/"),
                               Lits(<<"usr", "etc", "var", "home", "opt", "tmp">>),
                               Lit("/"), Plus(NotSpaceOrMarkup)>>, "i", "medium"),
           PatternDefinition(<<Rep(upper, 1, 1), Lit(":\\"),
                               Lits(<<"Users", "Windows", "Program Files", "temp">>),
                               Plus(NotMarkup)>>, "i", "medium"),
           PatternDefinition(<<Lit("/home/"),
                               Plus(letter \cup digit \cup {"_", "-"})>>, "i", "high"),
           PatternDefinition(<<Lit("/var/"), Lits(<<"log", "www", "lib">>), Lit("/"),
                               Plus(NotSpaceOrMarkup)>>, "i", "medium"),
           PatternDefinition(<<Lit("WEB-INF/")>>, "i", "high"),
           PatternDefinition(<<Lit("META-INF/")>>, "i", "medium"),
           PatternDefinition(<<Lit("."),
                               Lits(<<"properties", "xml", "conf", "config", "ini">>),
                               WordBoundary>>, "i", "low") >>

      stacktracePatterns ==
        << PatternDefinition(<<Lit("at"), Plus(space), Plus(word \cup {".", "$"}),
                               Lit("("), Plus(word \cup {"."}), Lit(":"), Plus(digit),
                               Lit(")")>>, "", "high"),
           PatternDefinition(<<Lit("Exception"), Star(dot), Lit(":"), Star(space),
                               Plus(dot)>>, "i", "high"),
           PatternDefinition(<<Lit("Caused by:")>>, "i", "high"),
           PatternDefinition(<<Lit("java."), Plus(word), Lit("."), Plus(word),
                               Lit("Exception")>>, "i", "high"),
           PatternDefinition(<<Lit("javax."), Plus(word), Lit("."), Plus(word),
                               Lit("Exception")>>, "i", "high"),
           PatternDefinition(<<Lit("org."), Plus(word \cup {"."}),
                               Lit("Exception")>>, "i", "high"),
           PatternDefinition(<<Lit("Traceback (most recent call last)")>>, "i", "high"),
           PatternDefinition(<<Lit("File \""), Star(dot), Lit("\", line "),
                               Plus(digit)>>, "i", "high"),
           PatternDefinition(<<Lit("Error:"), Plus(space), Lit("at"),
                               Plus(space)>>, "i", "medium"),
           PatternDefinition(<<Lit("NullPointerException")>>, "i", "high"),
           PatternDefinition(<<Lit("ClassNotFoundException")>>, "i", "medium"),
           PatternDefinition(<<Lit("NoSuchMethodException")>>, "i", "medium") >>

      errorPatterns ==
        << PatternDefinition(<<Lit("error"), Plus(space),
                               Lits(<<"occurred", "happened">>)>>, "i", "low"),
           PatternDefinition(<<Lit("failed"), Star(space), Lit(":")>>, "i", "low"),
           PatternDefinition(<<Lit("invalid"), Plus(space),
                               Lits(<<"value", "input", "parameter", "argument">>)>>,
                             "i", "low"),
           PatternDefinition(<<Lit("not"), Plus(space), Lit("found")>>, "i", "low"),
           PatternDefinition(<<Lit("access"), Plus(space), Lit("denied")>>, "i", "medium"),
           PatternDefinition(<<Lit("permission"), Plus(space), Lit("denied")>>,
                             "i", "medium"),
           PatternDefinition(<<Lit("unauthorized")>>, "i", "medium"),
           PatternDefinition(<<Lit("authentication"), Plus(space), Lit("failed")>>,
                             "i", "medium"),
           PatternDefinition(<<Lit("connection"), Plus(space),
                               Lits(<<"refused", "failed", "timeout">>)>>, "i", "low"),
           PatternDefinition(<<Lit("internal"), Plus(space),
                               Alt(<< <<Lit("server"), Plus(space)>>, <<>> >>),
                               Lit("error")>>, "i", "medium") >>

      Separator == {"-", "."}                                           \* [-.]
      SpaceOrDash == space \cup {"-"}                                   \* [\s-]
      UnderscoreOrDash == {"_", "-"}                                    \* [_-]
      Assign == {":", "="}                                              \* [:=]

      piiPatterns ==
        << PatternDefinition(<<Plus(letter \cup digit \cup {".", "_", "%", "+", "-"}),
                               Lit("@"), Plus(letter \cup digit \cup {".", "-"}),
                               Lit("."), AtLeast(letter, 2)>>, "", "medium"),
           PatternDefinition(<<WordBoundary, Rep(digit, 3, 3), Optional(Separator),
                               Rep(digit, 3, 3), Optional(Separator),
                               Rep(digit, 4, 4), WordBoundary>>, "", "medium"),
           PatternDefinition(<<WordBoundary, Rep(digit, 3, 3), Lit("-"),
                               Rep(digit, 2, 2), Lit("-"), Rep(digit, 4, 4),
                               WordBoundary>>, "", "high"),
           PatternDefinition(<<WordBoundary, Rep(digit, 4, 4), Optional(SpaceOrDash),
                               Rep(digit, 4, 4), Optional(SpaceOrDash),
                               Rep(digit, 4, 4), Optional(SpaceOrDash),
                               Rep(digit, 4, 4), WordBoundary>>, "", "high"),
           PatternDefinition(<<WordBoundary, Lits(<<"password", "passwd", "pwd">>),
                               Star(space), Rep(Assign, 1, 1), Star(space),
                               Plus(Not(space))>>, "i", "high"),
           PatternDefinition(<<WordBoundary,
                               Alt(<< <<Lit("api"), Optional(UnderscoreOrDash), Lit("key")>>,
                                      <<Lit("apikey")>>,
                                      <<Lit("secret"), Optional(UnderscoreOrDash),
                                        Lit("key")>> >>),
                               Star(space), Rep(Assign, 1, 1), Star(space),
                               Plus(Not(space))>>, "i", "high"),
           PatternDefinition(<<WordBoundary,
                               Alt(<< <<Lit("token")>>,
                                      <<Lit("auth"), Optional(UnderscoreOrDash),
                                        Lit("token")>>,
                                      <<Lit("access"), Optional(UnderscoreOrDash),
                                        Lit("token")>> >>),
                               Star(space), Rep(Assign, 1, 1), Star(space),
                               AtLeast(letter \cup digit \cup {"_", "-"}, 20)>>,
                             "i", "high") >>

      sensitivePatterns ==
        << PatternDefinition(<<WordBoundary, Lit("DEBUG"), Star(space),
                               Rep(Assign, 1, 1)>>, "i", "low"),
           PatternDefinition(<<WordBoundary, Lit("version"), Star(space),
                               Rep(Assign, 1, 1), Star(space),
                               Plus(digit \cup {"."})>>, "i", "low"),
           PatternDefinition(<<WordBoundary, Lit("server"), Star(space),
                               Rep(Assign, 1, 1), Star(space), Plus(Not(space))>>,
                             "i", "low"),
           PatternDefinition(<<WordBoundary, Lit("powered"),
                               Optional(UnderscoreOrDash), Lit("by"), Star(space),
                               Optional(Assign), Star(space), Plus(Not(space))>>,
                             "i", "low"),
           PatternDefinition(<<Lit("<!--"), LazyStar(TextChars),
                               Lits(<<"TODO", "FIXME", "HACK", "XXX", "BUG">>),
                               LazyStar(TextChars), Lit("-->")>>, "i", "low"),
           PatternDefinition(<<WordBoundary, Lit("root"), Star(space),
                               Rep({":", "@"}, 1, 1)>>, "i", "medium"),
           PatternDefinition(<<WordBoundary, Lit("admin"),
                               Alt(<< <<Lit("istrator")>>, <<>> >>), Star(space),
                               Rep({":", "@"}, 1, 1)>>, "i", "medium"),
           PatternDefinition(<<Lit("jdbc:"), Plus(Chars(LowerCaseLetters)),
                               Lit("://"), Plus(NotSpaceOrMarkup)>>, "i", "high"),
           PatternDefinition(<<Lit("mongodb"), Alt(<< <<Lit("+srv")>>, <<>> >>),
                               Lit("://"), Plus(NotSpaceOrMarkup)>>, "i", "high") >>
  IN
  << <<"sql", sqlPatterns>>, <<"path", pathPatterns>>,
     <<"stacktrace", stacktracePatterns>>, <<"error", errorPatterns>>,
     <<"pii", piiPatterns>>, <<"sensitive", sensitivePatterns>> >>

MAX_CONTEXT_LENGTH == 100

Least(S) == CHOOSE x \in S : \A y \in S : x <= y

\* the end of the match of elems that starts at pos, found by backtracking
\* in the order of the ECMAScript matcher (alternatives left to right, the
\* longest repetition first, the shortest first for a lazy one); -1 if none
RECURSIVE Match(_, _, _)
Match(subject, elems, pos) ==
  IF elems = <<>> THEN pos
  ELSE
    LET e == Head(elems)
        rest == Tail(elems)
        Greatest(S) == CHOOSE x \in S : \A y \in S : x >= y
        \* how many characters of e.cls the element e can take at pos, at most
        longest ==
          LET left == Len(subject) - pos
              limit == IF e.unbounded \/ left < e.max THEN left ELSE e.max
              stops == {n \in 0..(limit - 1) : charAt(subject, pos + n) \notin e.cls}
          IN IF stops = {} THEN limit ELSE Least(stops)
        isWordAt(i) == i >= 0 /\ i < Len(subject) /\ charAt(subject, i) \in word
    IN CASE e.k = "lit" ->
              IF /\ pos + Len(e.s) <= Len(subject)
                 /\ substring(subject, pos, pos + Len(e.s)) = e.s
              THEN Match(subject, rest, pos + Len(e.s))
              ELSE -1
         [] e.k = "wb" ->
              IF isWordAt(pos - 1) # isWordAt(pos)
              THEN Match(subject, rest, pos)
              ELSE -1
         [] e.k = "alt" ->
              LET taken == {i \in DOMAIN e.alts :
                              Match(subject, e.alts[i] \o rest, pos) # -1}
              IN IF taken = {} THEN -1
                 ELSE Match(subject, e.alts[Least(taken)] \o rest, pos)
         [] e.k = "rep" ->
              LET counts == {n \in e.min..longest :
                               Match(subject, rest, pos + n) # -1}
              IN IF counts = {} THEN -1
                 ELSE IF e.lazy THEN Match(subject, rest, pos + Least(counts))
                 ELSE Match(subject, rest, pos + Greatest(counts))

\* the successive results of globalPattern.exec(content): <<index, end>> of
\* each match, every search starting at lastIndex, the end of the match
\* before.  No pattern of the table matches the empty string, so lastIndex
\* always advances.
RECURSIVE execAll(_, _, _)
execAll(subject, elems, lastIndex) ==
  LET starts == {s \in lastIndex..Len(subject) : Match(subject, elems, s) # -1}
  IN IF starts = {} THEN <<>>
     ELSE LET index == Least(starts)
              end == Match(subject, elems, index)
          IN <<<<index, end>>>> \o execAll(subject, elems, end)

extractContext(text, matchStart, matchEnd) ==
  LET contextPadding == (MAX_CONTEXT_LENGTH - (matchEnd - matchStart)) \div 2
      \* Math.max(0, matchStart - contextPadding)
      contextStart == IF matchStart - contextPadding > 0
                      THEN matchStart - contextPadding ELSE 0
      \* Math.min(text.length, matchEnd + contextPadding)
      contextEnd == IF matchEnd + contextPadding < Len(text)
                    THEN matchEnd + contextPadding ELSE Len(text)
      middle == substring(text, contextStart, contextEnd)
      before == IF contextStart > 0 THEN "..." ELSE ""
      after == IF contextEnd < Len(text) THEN "..." ELSE ""
      \* context.replace(/\s+/g, " ").trim()
  IN join(splitWhiteSpace(before \o middle \o after), " ")

\* the nested for loops over Object.entries(SECURITY_PATTERNS) and over the
\* patterns of each category, as one list of <<category, definition>>, a
\* pattern with the flag i in its canonical form
patternEntries ==
  LET canonical(p) ==
        [p EXCEPT !.pattern = IF p.flags = "i" THEN ignoreCase(@) ELSE @]
      each(entry) == [k \in DOMAIN entry[2] |-> <<entry[1], canonical(entry[2][k])>>]
      flat(table) == each(table[1]) \o each(table[2]) \o each(table[3])
                       \o each(table[4]) \o each(table[5]) \o each(table[6])
  IN flat(SECURITY_PATTERNS)

\* the while loop over the matches of one pattern: the highlight of every
\* match, in the order exec returns them.  With the flag i the text is
\* compared in its canonical form.
matchesOf(text, entry) ==
  LET highlight(category, severity, index, end) ==
        [category |-> category, content |-> substring(text, index, end),
         context |-> extractContext(text, index, end), severity |-> severity]
      each(category, severity, matches) ==
        [n \in DOMAIN matches |->
           highlight(category, severity, matches[n][1], matches[n][2])]
  IN IF entry[2].flags = "i"
     THEN each(entry[1], entry[2].severity,
               execAll(toLowerCase(text), entry[2].pattern, 0))
     ELSE each(entry[1], entry[2].severity, execAll(text, entry[2].pattern, 0))

\* the matches of the patterns in entries, in the order the loops meet them
RECURSIVE allMatches(_, _)
allMatches(text, entries) ==
  IF entries = <<>> THEN <<>>
  ELSE IF Len(entries) = 1 THEN matchesOf(text, entries[1])
  ELSE allMatches(text, SubSeq(entries, 1, Len(entries) \div 2))
         \o allMatches(text, SubSeq(entries, Len(entries) \div 2 + 1, Len(entries)))

\* the matches that are pushed: a match is skipped when matchedContent
\* holds its key, that is when an earlier match has the same key
pushed(found) ==
  LET dedupeKey(h) == h.category \o ":" \o h.content
      fresh == {i \in DOMAIN found :
                  \A j \in 1..(i - 1) : dedupeKey(found[j]) # dedupeKey(found[i])}
      nth(r) == CHOOSE i \in fresh : Cardinality({j \in fresh : j < i}) = r - 1
  IN [r \in 1..Cardinality(fresh) |-> found[nth(r)]]

severityOrder == [high |-> 0, medium |-> 1, low |-> 2]

\* a.localeCompare(b) for words of lower-case ASCII letters: the sign of the
\* comparison in alphabetical order
localeCompare(a, b) ==
  LET shorter == IF Len(a) <= Len(b) THEN Len(a) ELSE Len(b)
      differ == {i \in 0..(shorter - 1) : charAt(a, i) # charAt(b, i)}
  IN IF differ = {}
     THEN (IF Len(a) < Len(b) THEN -1 ELSE IF Len(a) > Len(b) THEN 1 ELSE 0)
     ELSE IF CharCodeOf[charAt(a, Least(differ))]
               < CharCodeOf[charAt(b, Least(differ))] THEN -1 ELSE 1

\* highlights.sort((a, b) => ...): by severity, then by category.
\* Array.prototype.sort is stable: elements that compare equal keep their
\* order.
sort(sq) ==
  LET compare(a, b) ==
        LET severityDiff == severityOrder[a.severity] - severityOrder[b.severity]
        IN IF severityDiff # 0 THEN severityDiff
           ELSE localeCompare(a.category, b.category)
      before(i, j) == compare(sq[i], sq[j]) < 0
                        \/ (compare(sq[i], sq[j]) = 0 /\ i < j)
      rank(i) == 1 + Cardinality({j \in DOMAIN sq : before(j, i)})
  IN [r \in DOMAIN sq |-> sq[CHOOSE i \in DOMAIN sq : rank(i) = r]]

\* mutation: the hits are returned in the order they were found
scanForSecurityPatterns_unsorted(input) ==
  IF NotAString(input) THEN <<>>
  ELSE pushed(allMatches(input.v, patternEntries))

scanForSecurityPatterns(input) ==
  IF NotAString(input) THEN <<>>
  ELSE sort(pushed(allMatches(input.v, patternEntries)))

-----------------------------------------------------------------------------
(* The view (views/JsfViewMode.vue).  props[s] is the value of              *)
(* props.raw for s = "raw" and of props[s]?.raw for the other names; a      *)
(* nullable value is <<>> (null) or <<value>>.                              *)

\* Object.entries(rawCandidates.value) lists the candidates in this order
RAW_SOURCES == <<"raw", "data", "request", "response", "value", "item">>

\* the first candidate that is a non-empty string
rawInfo(p) ==
  LET found == {i \in DOMAIN RAW_SOURCES : ~NotAString(p[RAW_SOURCES[i]])}
  IN IF found = {} THEN [raw |-> "", source |-> ""]
     ELSE LET source == RAW_SOURCES[CHOOSE i \in found : \A j \in found : i <= j]
          IN [raw |-> p[source].v, source |-> source]

\* The try block cannot throw: detectJsf catches its own exceptions, and the
\* parser and the categorizer throw none on a string, so the catch clause
\* has no behaviour of its own.
parsedRequestOf(p) ==
  LET result(found, parameters, grouped) ==
        <<[detection |-> found,
           categories |-> grouped,
           stats |-> [totalParams |-> Len(parameters),
                      standardJsfCount |-> Len(grouped.standardJsf),
                      componentIdCount |-> Len(grouped.componentIds),
                      customCount |-> Len(grouped.custom)]]>>
      categorized(found, parameters) ==
        result(found, parameters, categorizeParameters(parameters))
      parse(r) ==
        IF r = "" THEN <<>>
        ELSE categorized(detectJsf(JsString(r)), parseJsfBody(JsString(r)).parameters)
  IN parse(rawInfo(p).raw)

\* mutation: a missing parsed request is tested before a missing message
errorMessageOf_parseFirst(text, request) ==
  IF request = <<>>
  THEN <<"Failed to parse request body.">>
  ELSE IF text = ""
  THEN <<"No request body provided. Select a request to analyze.">>
  ELSE IF ~request[1].detection.isJsf
  THEN <<"This does not appear to be a JSF request.">>
  ELSE <<>>

\* the computed errorMessage, from rawInfo.value.raw and parsedRequest.value
errorMessageOf(text, request) ==
  IF text = ""
  THEN <<"No request body provided. Select a request to analyze.">>
  ELSE IF request = <<>>
  THEN <<"Failed to parse request body.">>
  ELSE IF ~request[1].detection.isJsf
  THEN <<"This does not appear to be a JSF request.">>
  ELSE <<>>

\* the template: which of the two v-if blocks are rendered
template(text, request) ==
  [errorMessage |-> errorMessageOf(text, request),
   mainContent |-> request # <<>> /\ errorMessageOf(text, request) = <<>>]

\* copyAsText and copyAsJson: nothing without a parsed request; otherwise
\* the export of the parsed request is handed to copyToClipboard, which
\* writes it and sets the feedback unless both ways of copying fail.  The
\* exported text is kept as the pair of the format and the parsed request.
copy(request, format, feedback, written, state) ==
  IF request = <<>> THEN state
  ELSE IF written
  THEN [clipboard |-> <<[format |-> format, parsed |-> request[1]]>>,
        copyFeedback |-> <<feedback>>]
  ELSE state

-----------------------------------------------------------------------------
(* The plugin entry point and the SDK singleton (index.ts, caido.ts).  An   *)
(* SDK instance is a record of its identity and of the surfaces it has.     *)

SURFACES == <<"httpHistory", "replay", "search", "sitemap">>

\* setCaido(instance): the module variable, null being <<>>
setCaido(instance) == <<instance>>

\* getCaido(): the instance, or the error thrown while the variable is null
getCaido(holder) ==
  IF holder = <<>>
  THEN [ok |-> FALSE, error |-> "Caido SDK not initialized. Call setCaido() first."]
  ELSE [ok |-> TRUE, v |-> holder[1]]

\* the surfaces of SURFACES from the i-th on that the instance has, in order
RECURSIVE present(_, _)
present(instance, i) ==
  IF i > Len(SURFACES) THEN <<>>
  ELSE (IF SURFACES[i] \in instance.surfaces THEN <<SURFACES[i]>> ELSE <<>>)
         \o present(instance, i + 1)

\* mutation: the view mode is registered before the instance is stored
init_registerFirst(instance) ==
  [caido |-> setCaido(instance),
   steps |-> [i \in DOMAIN present(instance, 1) |->
                [op |-> "addRequestViewMode", on |-> present(instance, 1)[i]]]
               \o <<[op |-> "setCaido", on |-> ""]>>]

\* init(caido): the module variable after it and the calls it makes, in order
init(instance) ==
  [caido |-> setCaido(instance),
   steps |-> <<[op |-> "setCaido", on |-> ""]>>
               \o [i \in DOMAIN present(instance, 1) |->
                     [op |-> "addRequestViewMode", on |-> present(instance, 1)[i]]]]

-----------------------------------------------------------------------------
(* The expanded sections and parameters of the view and its settings        *)
(* (views/JsfViewMode.vue).  A Set is the sequence of its elements in       *)
(* insertion order; the stored settings are the item of localStorage as     *)
(* JSON.parse reads it, an absent field being <<>>.                         *)

\* new Set(values)
newSet(values) ==
  LET first == {i \in DOMAIN values : \A j \in 1..(i - 1) : values[j] # values[i]}
      nth(r) == CHOOSE i \in first : Cardinality({j \in first : j < i}) = r - 1
  IN [r \in 1..Cardinality(first) |-> values[nth(r)]]

\* mutation: a section that is expanded stays expanded
toggleSection_expandOnly(st, section) ==
  IF InSeq(section, st.expandedSections) THEN st
  ELSE [st EXCEPT !.expandedSections = Append(@, section)]

\* Set.has, then Set.delete or Set.add
toggleSection(st, section) ==
  IF InSeq(section, st.expandedSections)
  THEN [st EXCEPT !.expandedSections = SelectSeq(@, LAMBDA x : x # section)]
  ELSE [st EXCEPT !.expandedSections = Append(@, section)]

toggleParam(st, paramKey) ==
  IF InSeq(paramKey, st.expandedParams)
  THEN [st EXCEPT !.expandedParams = SelectSeq(@, LAMBDA x : x # paramKey)]
  ELSE [st EXCEPT !.expandedParams = Append(@, paramKey)]

\* loadSettings: nothing without an item, nothing when JSON.parse throws;
\* otherwise the fields that are present replace the values of the view
loadSettings(st, item) ==
  IF item.t # "settings" THEN st
  ELSE [st EXCEPT
          !.expandedSections = IF item.expandedSections # <<>>
                               THEN newSet(item.expandedSections[1]) ELSE @,
          !.showVerbose = IF item.showVerbose # <<>>
                          THEN item.showVerbose[1] ELSE @]

\* saveSettings: the item written
saveSettings(st) ==
  [t |-> "settings", expandedSections |-> <<st.expandedSections>>,
   showVerbose |-> <<st.showVerbose>>]

\* onMounted, with the watchers it sets off: loadSettings, then saveSettings
\* if expandedSections was given a new Set or showVerbose a new value
mounted(st, item) ==
  LET loaded == loadSettings(st, item)
      watched == \/ (item.t = "settings" /\ item.expandedSections # <<>>)
                 \/ loaded.showVerbose # st.showVerbose
  IN [view |-> loaded,
      storage |-> IF watched THEN saveSettings(loaded) ELSE item]

-----------------------------------------------------------------------------
(* Inputs *)

\* '&'-delimited segments a body is made of
Segments ==
  { "javax.faces.ViewState=abc123",
    "javax.faces.ViewState=rO0ABXQ=",
    "javax.faces.partial.ajax=true",
    "javax.faces.j_id_1_SUBMIT=1",
    "javax.faces.foo=1",
    "j_id_3x:j_id_40:0:j_id_42=v",
    "j_id_1_SUBMIT=1",
    "form%5FSUBMIT=1",
    "key=value",
    "jffi=1",
    "org.primefaces.x=a%ZZ",
    "%ZZ=a%2520b=c",
    "flag",
    "" }

\* a body of at most MaxParams segments, bare or after a header block in
\* either line-end convention; and values that are not strings
RawInputs ==
  LET SegmentLists == UNION {[1..n -> Segments] : n \in 0..MaxParams}
      Bodies == {join(segs, "&") : segs \in SegmentLists}
      Headers == {"", "POST /test HTTP/1.1\r\nHost: example.com\r\n\r\n",
                  "Host: example.com\n\n"}
  IN {JsString(h \o b) : h \in Headers, b \in Bodies}
       \cup {JsNull, JsUndefined, JsNumber("42")}

\* colon-separated tokens a component ID is made of
Tokens == {"", "0", "42", "j_id_3x", "form"}

ComponentIds ==
  {JsString(join(toks, ":")) :
     toks \in UNION {[1..n -> Tokens] : n \in 1..MaxTokens}}
    \cup {JsString("j_id_3x:j_id_40:0:j_id_42"), JsNull, JsUndefined}

\* code units a string to encode is made of: A, space, =, %, e-acute,
\* the euro sign, and the two halves of the surrogate pair of U+1F600
UnitAlphabet == {65, 32, 61, 37, 233, 8364, 55357, 56832}

Originals == UNION {[1..n -> UnitAlphabet] : n \in 0..MaxUnits}

RECURSIVE concat(_)
concat(parts) == IF parts = <<>> THEN "" ELSE Head(parts) \o concat(Tail(parts))

\* pieces a raw message is made of: header text ended by a blank line in
\* either convention, body text, and single line ends
Messages ==
  LET MessageParts == {"A\n\n", "B\r\n\r\n", "C", "\r\n", "\n"}
  IN {JsString(concat(parts)) :
        parts \in UNION {[1..n -> MessageParts] : n \in 0..MaxParts}}
    \cup {JsNull, JsUndefined, JsNumber("42")}

\* s repeated n times
RECURSIVE repeat(_, _)
repeat(s, n) ==
  IF n = 0 THEN ""
  ELSE IF n % 2 = 1 THEN s \o repeat(s, n - 1)
  ELSE LET half == repeat(s, n \div 2) IN half \o half

\* pieces a view-state value is made of: base64 quadruples with and without
\* padding and with and without the magic bytes, a half quadruple, a lone
\* padding character and a character outside the base64 alphabet
\* Besides the generated values, two values of more than 10,000 characters
\* (one base64, one not).
ViewStateValues ==
  LET ViewStateChunks ==
        {"rO0A", "QUJD", "QQ==", "rO0=", "rA==", "rAAA", "ab", "=", "!"}
  IN {concat(chunks) :
        chunks \in UNION {[1..n -> ViewStateChunks] : n \in 0..MaxChunks}}
    \cup {repeat("QUJD", LargeQuads), repeat("QUJD", LargeQuads) \o "!"}

\* the six names analyzeValue knows and three it does not, each with every
\* value; and the view-state name with a value of more than 10,000
\* characters
ExplainedInputs ==
  LET ExplainedNames ==
        {"javax.faces.partial.ajax", "javax.faces.partial.execute",
         "javax.faces.partial.render", "javax.faces.source",
         "javax.faces.ViewState", "javax.faces.ClientWindow",
         "javax.faces.encodedURL", "form:input", "custom"}
      ExplainedValues ==
        {"", "true", "TRUE", "false", "a:b", "form:j_id5:0", "j_id5", "xj_idx",
         "QUJD", "QUJD====", "QUI=", "rO0A", "abc", "abcde",
         "@all form:btn @this", "@none", "constructor x", "stateless",
         "stateless:1", repeat("QUJD", 26)}
  IN (ExplainedNames \X ExplainedValues)
       \cup {<<"javax.faces.ViewState", repeat("QUJD", LargeQuads)>>}

\* pieces a scanned text is made of: an Oracle error (sql, high), a home
\* directory (path: two patterns match the same text), a generic error
\* (error, low), a chained exception (stacktrace, high) and harmless text
ScanInputs ==
  LET ScanFragments ==
        {"ORA-1 ", "/home/b ", "Not found ", "Caused by: ", "Hello "}
  IN {JsString(concat(parts)) :
        parts \in UNION {[1..n -> ScanFragments] : n \in 0..MaxFragments}}
    \cup {JsNull, JsUndefined, JsNumber("42")}

\* the props of the view: at most MaxProps candidates are defined.  A
\* candidate is no string, the empty string, a JSF request or a request
\* that is not JSF.
ViewProps ==
  LET Candidates ==
        {JsUndefined, JsNumber("42"), JsString(""),
         JsString("Host: example.com\n\njavax.faces.ViewState=abc123"),
         JsString("key=value")}
  IN {p \in [{RAW_SOURCES[i] : i \in DOMAIN RAW_SOURCES} -> Candidates] :
        Cardinality({s \in DOMAIN p : p[s] # JsUndefined}) <= MaxProps}

\* SDK instances: one without surfaces, one with all four, one with two
Instances ==
  { [id |-> 1, surfaces |-> {}],
    [id |-> 2, surfaces |-> {"httpHistory", "replay", "search", "sitemap"}],
    [id |-> 3, surfaces |-> {"replay", "sitemap"}] }

\* the keys the template passes to toggleSection and to toggleParam
Sections == {"standardJsf", "componentIds", "viewState", "formSubmit", "custom"}
ParamKeys == {"comp-id-0", "comp-id-1"}

\* what localStorage can hold: no item, an item that is not JSON, and
\* settings with and without each field
StoredSettings ==
  {[t |-> "none"], [t |-> "invalid"]}
    \cup {[t |-> "settings", expandedSections |-> e, showVerbose |-> v] :
            e \in {<<>>, << <<>> >>, << <<"viewState">> >>,
                   << <<"custom", "standardJsf", "custom">> >>},
            v \in {<<>>, <<FALSE>>}}

-----------------------------------------------------------------------------
(* The state machine: one input, and the operations applied to it: the    *)
(* view's parsedRequest (detect, parse, categorize), the component-ID      *)
(* parser followed by the formatter, the encoder and decoder of the round  *)
(* trip, the body extractor, the view-state analyzer or the value          *)
(* explainer.                                                              *)

\* every variable but pc and the inputs named in keep has its idle value
Idle(keep) ==
  /\ "raw" \in keep \/ raw = JsNull
  /\ "id" \in keep \/ id = JsNull
  /\ "original" \in keep \/ original = <<>>
  /\ "message" \in keep \/ message = JsNull
  /\ "viewStateValue" \in keep \/ viewStateValue = ""
  /\ "explained" \in keep \/ (explainedName = "" /\ explainedValue = "")
  /\ "content" \in keep \/ content = JsNull
  /\ "storage" \in keep \/ storage = [t |-> "none"]
  /\ "props" \in keep \/ props = [s \in {RAW_SOURCES[i] : i \in DOMAIN RAW_SOURCES} |-> JsUndefined]

Init ==
  /\ \/ pc = "request" /\ raw \in RawInputs /\ Idle({"raw"})
     \/ pc = "componentId" /\ id \in ComponentIds /\ Idle({"id"})
     \/ pc = "plain" /\ original \in Originals /\ Idle({"original"})
     \/ pc = "message" /\ message \in Messages /\ Idle({"message"})
     \/ pc = "viewState" /\ viewStateValue \in ViewStateValues
                         /\ Idle({"viewStateValue"})
     \/ pc = "value" /\ \E input \in ExplainedInputs :
                          explainedName = input[1] /\ explainedValue = input[2]
                     /\ Idle({"explained"})
     \/ pc = "scan" /\ content \in ScanInputs /\ Idle({"content"})
     \/ pc = "view" /\ props \in ViewProps /\ Idle({"props"})
     \/ pc = "plugin" /\ Idle({})
     \/ pc = "mounting" /\ storage \in StoredSettings /\ Idle({"storage"})
  /\ detection = NoDetection
  /\ isJsf = FALSE
  /\ parseResult = [parameters |-> <<>>, rawBody |-> ""]
  /\ categories = EmptyCategories
  /\ categoryRefs = EmptyCategories
  /\ levels = <<>>
  /\ tree = ""
  /\ coded = original
  /\ extracted = ""
  /\ viewStateAnalysis = analyzeViewState("")
  /\ valueAnalysis = <<>>
  /\ highlights = <<>>
  /\ rendered = [errorMessage |-> <<>>, mainContent |-> FALSE]
  /\ clipboard = <<>>
  /\ copyFeedback = <<>>
  /\ parsedRequest = <<>>
  /\ caido = <<>>
  /\ calls = <<>>
  /\ expandedSections = <<>>
  /\ expandedParams = <<>>
  /\ showVerbose = TRUE
  /\ history = <<>>

DetectJsf ==
  /\ pc = "request"
  /\ detection' = detectJsf(raw)
  /\ pc' = "detected"
  /\ UNCHANGED <<raw, isJsf, parseResult, categories, categoryRefs>>
  /\ UNCHANGED <<componentIdVars, codecVars, messageVars, viewStateVars, explainerVars, scannerVars, viewVars, pluginVars, settingsVars>>

IsJsfRequest ==
  /\ pc = "detected"
  /\ isJsf' = isJsfRequest(raw)
  /\ pc' = "asked"
  /\ UNCHANGED <<raw, detection, parseResult, categories, categoryRefs>>
  /\ UNCHANGED <<componentIdVars, codecVars, messageVars, viewStateVars, explainerVars, scannerVars, viewVars, pluginVars, settingsVars>>

ParseJsfBody ==
  /\ pc = "asked"
  /\ parseResult' = parseJsfBody(raw)
  /\ pc' = "parsed"
  /\ UNCHANGED <<raw, detection, isJsf, categories, categoryRefs>>
  /\ UNCHANGED <<componentIdVars, codecVars, messageVars, viewStateVars, explainerVars, scannerVars, viewVars, pluginVars, settingsVars>>

\* the objects of the input array are those the parser made; after the call
\* the array holds what the call left of them
CategorizeParameters ==
  /\ pc = "parsed"
  /\ LET out == categorizeObjects(parseResult.parameters)
     IN /\ categories' = categorizeParameters(parseResult.parameters)
        /\ categoryRefs' = out.refs
        /\ parseResult' = [parseResult EXCEPT !.parameters =
                             SubSeq(out.heap, 1, Len(parseResult.parameters))]
  /\ pc' = "categorized"
  /\ UNCHANGED <<raw, detection, isJsf>>
  /\ UNCHANGED <<componentIdVars, codecVars, messageVars, viewStateVars, explainerVars, scannerVars, viewVars, pluginVars, settingsVars>>

ParseComponentId ==
  /\ pc = "componentId"
  /\ levels' = parseComponentId(id)
  /\ pc' = "levels"
  /\ UNCHANGED <<id, tree>>
  /\ UNCHANGED <<requestVars, codecVars, messageVars, viewStateVars, explainerVars, scannerVars, viewVars, pluginVars, settingsVars>>

FormatComponentIdTree ==
  /\ pc = "levels"
  /\ tree' = formatComponentIdTree(levels)
  /\ pc' = "formatted"
  /\ UNCHANGED <<id, levels>>
  /\ UNCHANGED <<requestVars, codecVars, messageVars, viewStateVars, explainerVars, scannerVars, viewVars, pluginVars, settingsVars>>

\* encodeParameter(coded), of the original string and then of its encoding;
\* the exception encodeURIComponent throws leaves the caller without a value
EncodeParameter ==
  /\ pc \in {"plain", "encoded1"}
  /\ LET e == encodeParameter(coded)
     IN IF e.ok
        THEN /\ coded' = e.v
             /\ pc' = IF pc = "plain" THEN "encoded1" ELSE "encoded2"
        ELSE /\ coded' = coded
             /\ pc' = "thrown"
  /\ UNCHANGED original
  /\ UNCHANGED <<requestVars, componentIdVars, messageVars, viewStateVars, explainerVars, scannerVars, viewVars, pluginVars, settingsVars>>

\* decodeParameter(coded): once after one encoding, twice after two
DecodeParameter ==
  /\ pc \in {"encoded1", "encoded2", "decoded1"}
  /\ coded' = decodeParameter(coded)
  /\ pc' = IF pc = "encoded1" THEN "roundTrip1"
           ELSE IF pc = "encoded2" THEN "decoded1"
           ELSE "roundTrip2"
  /\ UNCHANGED original
  /\ UNCHANGED <<requestVars, componentIdVars, messageVars, viewStateVars, explainerVars, scannerVars, viewVars, pluginVars, settingsVars>>

ExtractBodyFromRaw ==
  /\ pc = "message"
  /\ extracted' = extractBodyFromRaw(message)
  /\ pc' = "extracted"
  /\ UNCHANGED message
  /\ UNCHANGED <<requestVars, componentIdVars, codecVars, viewStateVars, explainerVars, scannerVars, viewVars, pluginVars, settingsVars>>

AnalyzeViewState ==
  /\ pc = "viewState"
  /\ viewStateAnalysis' = analyzeViewState(viewStateValue)
  /\ pc' = "analyzed"
  /\ UNCHANGED viewStateValue
  /\ UNCHANGED <<requestVars, componentIdVars, codecVars, messageVars, explainerVars, scannerVars, viewVars, pluginVars, settingsVars>>

AnalyzeValue ==
  /\ pc = "value"
  /\ valueAnalysis' = analyzeValue(explainedName, explainedValue)
  /\ pc' = "explained"
  /\ UNCHANGED <<explainedName, explainedValue>>
  /\ UNCHANGED <<requestVars, componentIdVars, codecVars, messageVars, viewStateVars, scannerVars, viewVars, pluginVars, settingsVars>>

ScanForSecurityPatterns ==
  /\ pc = "scan"
  /\ highlights' = scanForSecurityPatterns(content)
  /\ pc' = "scanned"
  /\ UNCHANGED content
  /\ UNCHANGED <<requestVars, componentIdVars, codecVars, messageVars, viewStateVars, explainerVars, viewVars, pluginVars, settingsVars>>

\* the view is rendered for its props
Render ==
  /\ pc = "view"
  /\ parsedRequest' = parsedRequestOf(props)
  /\ rendered' = template(rawInfo(props).raw, parsedRequest')
  /\ pc' = "rendered"
  /\ UNCHANGED <<props, clipboard, copyFeedback>>
  /\ UNCHANGED <<requestVars, componentIdVars, codecVars, messageVars, viewStateVars, explainerVars, scannerVars, pluginVars, settingsVars>>

\* a click on Copy as Text; written tells whether one of the two ways of
\* copying worked
CopyAsText ==
  /\ pc = "rendered"
  /\ \E written \in BOOLEAN :
       LET after == copy(parsedRequest, "text", "Copied as text", written,
                         [clipboard |-> clipboard, copyFeedback |-> copyFeedback])
       IN clipboard' = after.clipboard /\ copyFeedback' = after.copyFeedback
  /\ UNCHANGED <<pc, props, parsedRequest, rendered>>
  /\ UNCHANGED <<requestVars, componentIdVars, codecVars, messageVars, viewStateVars, explainerVars, scannerVars, pluginVars, settingsVars>>

CopyAsJson ==
  /\ pc = "rendered"
  /\ \E written \in BOOLEAN :
       LET after == copy(parsedRequest, "json", "Copied as JSON", written,
                         [clipboard |-> clipboard, copyFeedback |-> copyFeedback])
       IN clipboard' = after.clipboard /\ copyFeedback' = after.copyFeedback
  /\ UNCHANGED <<pc, props, parsedRequest, rendered>>
  /\ UNCHANGED <<requestVars, componentIdVars, codecVars, messageVars, viewStateVars, explainerVars, scannerVars, pluginVars, settingsVars>>

\* the timer set by a successful copy clears the feedback
FeedbackTimeout ==
  /\ pc = "rendered"
  /\ copyFeedback # <<>>
  /\ copyFeedback' = <<>>
  /\ UNCHANGED <<pc, props, parsedRequest, rendered, clipboard>>
  /\ UNCHANGED <<requestVars, componentIdVars, codecVars, messageVars, viewStateVars, explainerVars, scannerVars, pluginVars, settingsVars>>

SetCaido ==
  /\ pc = "plugin"
  /\ Len(calls) < MaxCalls
  /\ \E instance \in Instances :
       /\ caido' = setCaido(instance)
       /\ calls' = Append(calls, [op |-> "setCaido", instance |-> instance])
  /\ UNCHANGED pc
  /\ UNCHANGED <<requestVars, componentIdVars, codecVars, messageVars, viewStateVars, explainerVars, scannerVars, viewVars, settingsVars>>

GetCaido ==
  /\ pc = "plugin"
  /\ Len(calls) < MaxCalls
  /\ calls' = Append(calls, [op |-> "getCaido", result |-> getCaido(caido)])
  /\ UNCHANGED <<pc, caido>>
  /\ UNCHANGED <<requestVars, componentIdVars, codecVars, messageVars, viewStateVars, explainerVars, scannerVars, viewVars, settingsVars>>

InitPlugin ==
  /\ pc = "plugin"
  /\ Len(calls) < MaxCalls
  /\ \E instance \in Instances :
       /\ caido' = init(instance).caido
       /\ calls' = Append(calls, [op |-> "init", instance |-> instance,
                                  steps |-> init(instance).steps])
  /\ UNCHANGED pc
  /\ UNCHANGED <<requestVars, componentIdVars, codecVars, messageVars, viewStateVars, explainerVars, scannerVars, viewVars, settingsVars>>

Mounted ==
  /\ pc = "mounting"
  /\ LET after == mounted([expandedSections |-> expandedSections,
                           expandedParams |-> expandedParams,
                           showVerbose |-> showVerbose], storage)
     IN /\ expandedSections' = after.view.expandedSections
        /\ expandedParams' = after.view.expandedParams
        /\ showVerbose' = after.view.showVerbose
        /\ storage' = after.storage
        /\ history' = <<[op |-> "mounted", key |-> "",
                         after |-> after.view.expandedSections]>>
  /\ pc' = "mounted"
  /\ UNCHANGED <<requestVars, componentIdVars, codecVars, messageVars, viewStateVars, explainerVars, scannerVars, viewVars, pluginVars>>

\* a click on a section header.  The Set is changed in place, so that the
\* watcher of expandedSections, which waits for a new Set, does not save.
ToggleSection ==
  /\ pc = "mounted"
  /\ Len(history) <= MaxToggles
  /\ \E section \in Sections :
       LET after == toggleSection([expandedSections |-> expandedSections,
                                   expandedParams |-> expandedParams,
                                   showVerbose |-> showVerbose], section)
       IN /\ expandedSections' = after.expandedSections
          /\ expandedParams' = after.expandedParams
          /\ showVerbose' = after.showVerbose
          /\ history' = Append(history, [op |-> "toggleSection", key |-> section,
                                         after |-> after.expandedSections])
  /\ UNCHANGED <<pc, storage>>
  /\ UNCHANGED <<requestVars, componentIdVars, codecVars, messageVars, viewStateVars, explainerVars, scannerVars, viewVars, pluginVars>>

ToggleParam ==
  /\ pc = "mounted"
  /\ Len(history) <= MaxToggles
  /\ \E paramKey \in ParamKeys :
       LET after == toggleParam([expandedSections |-> expandedSections,
                                 expandedParams |-> expandedParams,
                                 showVerbose |-> showVerbose], paramKey)
       IN /\ expandedSections' = after.expandedSections
          /\ expandedParams' = after.expandedParams
          /\ showVerbose' = after.showVerbose
          /\ history' = Append(history, [op |-> "toggleParam", key |-> paramKey,
                                         after |-> after.expandedSections])
  /\ UNCHANGED <<pc, storage>>
  /\ UNCHANGED <<requestVars, componentIdVars, codecVars, messageVars, viewStateVars, explainerVars, scannerVars, viewVars, pluginVars>>

Next ==
  \/ DetectJsf
  \/ IsJsfRequest
  \/ ParseJsfBody
  \/ CategorizeParameters
  \/ ParseComponentId
  \/ FormatComponentIdTree
  \/ EncodeParameter
  \/ DecodeParameter
  \/ ExtractBodyFromRaw
  \/ AnalyzeViewState
  \/ AnalyzeValue
  \/ ScanForSecurityPatterns
  \/ Render
  \/ CopyAsText
  \/ CopyAsJson
  \/ FeedbackTimeout
  \/ SetCaido
  \/ GetCaido
  \/ InitPlugin
  \/ Mounted
  \/ ToggleSection
  \/ ToggleParam

Spec == Init /\ [][Next]_vars

TypeOK ==
  /\ pc \in {"request", "detected", "asked", "parsed", "categorized",
             "componentId", "levels", "formatted",
             "plain", "encoded1", "encoded2", "decoded1", "roundTrip1",
             "roundTrip2", "thrown", "message", "extracted",
             "viewState", "analyzed", "value", "explained",
             "scan", "scanned", "view", "rendered", "plugin",
             "mounting", "mounted"}
  /\ detection.confidence \in {"high", "medium", "low"}
  /\ detection.isJsf \in BOOLEAN
  /\ isJsf \in BOOLEAN

-----------------------------------------------------------------------------
(* Properties *)

VIEW_STATE == "javax.faces.ViewState"

parameters == parseResult.parameters

\* the four ParsedParameter fields of a (possibly categorized) parameter
Base(p) ==
  [name |-> p.name, decodedName |-> p.decodedName,
   value |-> p.value, decodedValue |-> p.decodedValue]

\* how many entries of sq are the parameter q
Count(q, sq) == Cardinality({i \in DOMAIN sq : Base(sq[i]) = q})

\* how many times q occurs over the five buckets
Occurrences(q) ==
  Count(q, categories.standardJsf) + Count(q, categories.componentIds)
    + Count(q, categories.viewState) + Count(q, categories.formSubmit)
    + Count(q, categories.custom)

BucketTotal ==
  Len(categories.standardJsf) + Len(categories.componentIds)
    + Len(categories.viewState) + Len(categories.formSubmit)
    + Len(categories.custom)

\* positions of the parameters named javax.faces.ViewState
ViewStateAt == {i \in DOMAIN parameters : parameters[i].decodedName = VIEW_STATE}

\* the names of the buckets q occurs in
Where(q) ==
  {b \in {"standardJsf", "componentIds", "viewState", "formSubmit", "custom"} :
     Count(q, categories[b]) > 0}

\* C1 (as stated): after categorizeParameters, every input parameter is in
\* exactly one of the five buckets, so the bucket sizes sum to the number of
\* input parameters, also when javax.faces.ViewState occurs more than once.
C1_EveryParameterBucketed ==
  pc = "categorized" =>
    /\ \A i \in DOMAIN parameters :
         Occurrences(parameters[i]) = Count(parameters[i], parameters)
    /\ BucketTotal = Len(parameters)

\* C1 (amended): every input parameter not named javax.faces.ViewState is in
\* exactly one bucket, of the view-state parameters only one is kept, and the
\* bucket sizes sum to the number of input parameters minus the number of
\* view-state parameters beyond the first.
C1_BucketedUpToViewStateDuplicates ==
  pc = "categorized" =>
    /\ \A i \in DOMAIN parameters :
         parameters[i].decodedName # VIEW_STATE =>
           /\ Occurrences(parameters[i]) = Count(parameters[i], parameters)
           /\ Cardinality(Where(parameters[i])) = 1
    /\ Len(categories.viewState) = (IF ViewStateAt = {} THEN 0 ELSE 1)
    /\ BucketTotal = Len(parameters)
         - (IF ViewStateAt = {} THEN 0 ELSE Cardinality(ViewStateAt) - 1)

C1_Witness ==
  /\ pc = "categorized"
  /\ Cardinality(ViewStateAt) >= 2
  /\ BucketTotal < Len(parameters)

\* C2: the viewState slot is null iff no parameter is named
\* javax.faces.ViewState; otherwise it holds the last such parameter in input
\* order, and no such parameter is kept in any other bucket.
C2_LastViewStateWins ==
  pc = "categorized" =>
    /\ (categories.viewState = <<>>) <=> (ViewStateAt = {})
    /\ ViewStateAt # {} =>
         LET last == CHOOSE i \in ViewStateAt : \A j \in ViewStateAt : j <= i
         IN /\ Len(categories.viewState) = 1
            /\ Base(categories.viewState[1]) = parameters[last]
    /\ \A i \in ViewStateAt : Where(parameters[i]) \subseteq {"viewState"}

C2_Witness ==
  /\ pc = "categorized"
  /\ Cardinality(ViewStateAt) = 2
  /\ \E i, j \in ViewStateAt :
       /\ i < j
       /\ parameters[i].decodedValue # parameters[j].decodedValue
       /\ categories.viewState[1].decodedValue = parameters[j].decodedValue

\* every bucket entry carries the category tag of its bucket
TagsMatchBuckets ==
  /\ \A i \in DOMAIN categories.standardJsf :
       categories.standardJsf[i].category = "standard-jsf"
  /\ \A i \in DOMAIN categories.componentIds :
       categories.componentIds[i].category = "component-id"
  /\ \A i \in DOMAIN categories.viewState :
       categories.viewState[i].category = "viewstate"
  /\ \A i \in DOMAIN categories.formSubmit :
       categories.formSubmit[i].category = "form-submit"
  /\ \A i \in DOMAIN categories.custom :
       categories.custom[i].category = "custom"

\* C3: the first matching rule decides, in the order view-state name,
\* javax.faces. prefix, contains j_id_, ends with _SUBMIT, custom.
C3_Precedence ==
  pc = "categorized" =>
    /\ TagsMatchBuckets
    /\ \A i \in DOMAIN parameters :
         LET q == parameters[i]
             n == q.decodedName
         IN IF n = VIEW_STATE THEN Where(q) \subseteq {"viewState"}
            ELSE IF startsWith(n, "javax.faces.") THEN Where(q) = {"standardJsf"}
            ELSE IF includes(n, "j_id_") THEN Where(q) = {"componentIds"}
            ELSE IF endsWith(n, "_SUBMIT") THEN Where(q) = {"formSubmit"}
            ELSE Where(q) = {"custom"}

C3_Witness ==
  /\ pc = "categorized"
  /\ \E i \in DOMAIN categories.standardJsf :
       /\ includes(categories.standardJsf[i].decodedName, "j_id_")
       /\ endsWith(categories.standardJsf[i].decodedName, "_SUBMIT")
  /\ \E i \in DOMAIN categories.componentIds :
       endsWith(categories.componentIds[i].decodedName, "_SUBMIT")

\* C4: the view-state bucket entry stores the encoding, decodedContent and
\* warnings that the View-State Analyzer computes for the parameter's
\* decodedValue (for javax.faces.ViewState=abc123: encoding "encrypted").
C4_ViewStateAnalyzed ==
  (pc = "categorized" /\ categories.viewState # <<>>) =>
    LET stored == categories.viewState[1]
        analysis == analyzeViewState(stored.decodedValue)
    IN /\ stored.encoding = analysis.encoding
       /\ stored.decodedContent = analysis.decodedContent
       /\ stored.warnings = analysis.warnings

\* C5: a component-id bucket entry's hierarchy is the Component-ID Parser's
\* result for its decodedName, one level per colon-separated token.
C5_HierarchyParsed ==
  pc = "categorized" =>
    \A i \in DOMAIN categories.componentIds :
      categories.componentIds[i].hierarchy
        = parseComponentId(JsString(categories.componentIds[i].decodedName))

\* some decoded parameter name is in the closed list STANDARD_JSF_PARAMS
HasCanonicalName ==
  \E i \in DOMAIN parameters : InSeq(parameters[i].decodedName, STANDARD_JSF_PARAMS)

\* some decoded parameter name ends with _SUBMIT
HasSubmitName ==
  \E i \in DOMAIN parameters : endsWith(parameters[i].decodedName, "_SUBMIT")

\* C6: detectJsf returns isJsf = true iff some decoded parameter name is a
\* canonical framework parameter name or ends with _SUBMIT.
C6_DetectedIffCanonicalOrSubmit ==
  pc \in {"parsed", "categorized"} =>
    (detection.isJsf <=> (HasCanonicalName \/ HasSubmitName))

\* C7: confidence is high iff a canonical name is present, medium iff only
\* the _SUBMIT suffix fired, and low otherwise.
C7_ConfidenceByCanonicalName ==
  pc \in {"parsed", "categorized"} =>
    detection.confidence =
      (IF HasCanonicalName THEN "high"
       ELSE IF HasSubmitName THEN "medium"
       ELSE "low")

\* C8: isJsf holds iff there is an indicator, confidence is low iff isJsf is
\* false, and isJsfRequest answers what detectJsf reports.
C8_ResultConsistent ==
  pc \in {"asked", "parsed", "categorized"} =>
    /\ detection.isJsf <=> (Len(detection.indicators) > 0)
    /\ (detection.confidence = "low") <=> ~detection.isJsf
    /\ isJsf = detection.isJsf

C8_Witness ==
  /\ pc = "asked"
  /\ isJsf
  /\ detection.confidence = "medium"
  /\ Len(detection.indicators) = 1

\* C9: for an input that is empty or not a string, or whose body has no
\* parameter, detectJsf returns exactly {isJsf: false, confidence: "low",
\* indicators: []}; for every input it returns a well-formed result.
C9_NothingDetectedWithoutParameters ==
  pc \in {"parsed", "categorized"} =>
    /\ (NotAString(raw) \/ Len(parameters) = 0) =>
         detection = [isJsf |-> FALSE, confidence |-> "low", indicators |-> <<>>]
    /\ detection.isJsf \in BOOLEAN
    /\ detection.confidence \in {"high", "medium", "low"}

C9_Witness ==
  /\ pc = "parsed"
  /\ raw \in {JsNull, JsUndefined, JsNumber("42"), JsString("")}
  /\ detection = [isJsf |-> FALSE, confidence |-> "low", indicators |-> <<>>]

\* C10: formatting the parsed levels of a string gives back the string.
C10_RoundTrip ==
  (pc = "formatted" /\ id.t = "string") => tree = id.v

C10_Witness ==
  /\ pc = "formatted"
  /\ id = JsString(":0:")
  /\ Len(levels) = 3
  /\ tree = ":0:"

\* the number of colons of a string
Colons(s) == Cardinality({k \in 1..Len(s) : SubSeq(s, k, k) = ":"})

DecimalDigits == {"0", "1", "2", "3", "4", "5", "6", "7", "8", "9"}

AllDigits(s) == \A k \in 1..Len(s) : SubSeq(s, k, k) \in DecimalDigits

\* C11: a non-empty identifier gives one level per token of its split on
\* ':' (empty tokens included); level i (from 0) has depth i, is an index
\* iff its token is one or more decimal digits, unknown iff its token is
\* empty and a component otherwise; an empty or absent identifier gives the
\* empty sequence.
C11_LevelPerToken ==
  pc \in {"levels", "formatted"} =>
    IF id.t = "string" /\ id.v # ""
    THEN /\ Len(levels) = Colons(id.v) + 1
         /\ join([i \in DOMAIN levels |-> levels[i].id], ":") = id.v
         /\ \A i \in DOMAIN levels :
              /\ Colons(levels[i].id) = 0
              /\ levels[i].depth = i - 1
              /\ levels[i].type = "index" <=>
                   (levels[i].id # "" /\ AllDigits(levels[i].id))
              /\ levels[i].type = "unknown" <=> levels[i].id = ""
              /\ levels[i].type = "component" <=>
                   (levels[i].id # "" /\ ~AllDigits(levels[i].id))
    ELSE levels = <<>>

C11_Witness ==
  /\ pc = "levels"
  /\ id = JsString("j_id_3x::42")
  /\ levels = << [id |-> "j_id_3x", type |-> "component", depth |-> 0],
                 [id |-> "", type |-> "unknown", depth |-> 1],
                 [id |-> "42", type |-> "index", depth |-> 2] >>

\* a surrogate code unit that is not half of a pair
UnpairedSurrogate(units) ==
  \E i \in DOMAIN units :
    \/ /\ units[i] >= 55296 /\ units[i] <= 56319
       /\ ~(i < Len(units) /\ units[i + 1] >= 56320 /\ units[i + 1] <= 57343)
    \/ /\ units[i] >= 56320 /\ units[i] <= 57343
       /\ ~(i > 1 /\ units[i - 1] >= 55296 /\ units[i - 1] <= 56319)

NoPercent(units) == \A i \in DOMAIN units : units[i] # 37

\* C12: for a string without '%', decoding its encoding gives the string
\* back, and so does decoding twice after encoding twice (encoding yields a
\* value in both cases).
C12_RoundTrip ==
  NoPercent(original) =>
    /\ pc # "thrown"
    /\ pc \in {"roundTrip1", "roundTrip2"} => coded = original

\* the round trip does hold for the strings without an unpaired surrogate
C12_RoundTripWellFormed ==
  ~UnpairedSurrogate(original) =>
    /\ pc # "thrown"
    /\ pc \in {"roundTrip1", "roundTrip2"} => coded = original

\* the non-empty '&'-delimited segments of the parsed body, in order
NonEmptySegments ==
  SelectSeq(split(parseResult.rawBody, "&"), LAMBDA seg : seg # "")

\* decoded is the one-level percent-decoding of field, or field itself when
\* field has a malformed escape
DecodedOneLevel(field, decoded) ==
  LET d == decodeURIComponent(toUnits(field))
  IN IF d.ok THEN decoded = fromUnits(d.v) ELSE decoded = field

\* C13: every name and every value is percent-decoded on its own and one
\* level only; a field with a malformed escape keeps its raw form while the
\* other field of the parameter and the other parameters are still decoded,
\* and every non-empty segment still gives its parameter.
C13_DecodedOneLevelPerField ==
  pc \in {"parsed", "categorized"} =>
    /\ Len(parameters) = Len(NonEmptySegments)
    /\ \A i \in DOMAIN parameters :
         /\ DecodedOneLevel(parameters[i].name, parameters[i].decodedName)
         /\ DecodedOneLevel(parameters[i].value, parameters[i].decodedValue)

C13_Witness ==
  /\ pc = "parsed"
  /\ Len(parameters) = 2
  /\ parameters[1] = [name |-> "%ZZ", decodedName |-> "%ZZ",
                      value |-> "a%2520b=c", decodedValue |-> "a%20b=c"]
  /\ parameters[2] = [name |-> "form%5FSUBMIT", decodedName |-> "form_SUBMIT",
                      value |-> "1", decodedValue |-> "1"]

\* C14: the body gives one parameter per non-empty '&'-delimited segment, in
\* order; a segment is split at its first '=' only (the name is what stands
\* before it, the value everything after it), a segment without '=' is a
\* name with the empty value, and an empty or absent body gives no
\* parameter.
C14_ParameterPerSegment ==
  pc \in {"parsed", "categorized"} =>
    /\ Len(parameters) = Len(NonEmptySegments)
    /\ \A i \in DOMAIN parameters :
         LET seg == NonEmptySegments[i]
             p == parameters[i]
         IN IF includes(seg, "=")
            THEN seg = p.name \o "=" \o p.value /\ ~includes(p.name, "=")
            ELSE p.name = seg /\ p.value = ""
    /\ parseResult.rawBody = "" => parameters = <<>>

C14_Witness ==
  /\ pc = "parsed"
  /\ parseResult.rawBody = "flag&%ZZ=a%2520b=c"
  /\ Len(parameters) = 2
  /\ parameters[1].name = "flag" /\ parameters[1].value = ""
  /\ parameters[2].name = "%ZZ" /\ parameters[2].value = "a%2520b=c"

\* the positions (from 1) at which sep occurs in s
Positions(s, sep) ==
  {k \in 1..(Len(s) - Len(sep) + 1) : SubSeq(s, k, k + Len(sep) - 1) = sep}

\* what follows the first occurrence of sep in s
AfterFirst(s, sep) ==
  LET k == CHOOSE i \in Positions(s, sep) : \A j \in Positions(s, sep) : i <= j
  IN SubSeq(s, k + Len(sep), Len(s))

\* C15: extractBodyFromRaw returns a string in every case: what follows the
\* first "\r\n\r\n" if the message has one (even after an earlier "\n\n"),
\* otherwise what follows the first "\n\n" if it has one, and the empty
\* string if it has neither or is empty or not a string.
C15_BodyAfterSeparator ==
  pc = "extracted" =>
    extracted =
      (IF message.t # "string" THEN ""
       ELSE IF Positions(message.v, "\r\n\r\n") # {}
         THEN AfterFirst(message.v, "\r\n\r\n")
       ELSE IF Positions(message.v, "\n\n") # {}
         THEN AfterFirst(message.v, "\n\n")
       ELSE "")

C15_Witness ==
  /\ pc = "extracted"
  /\ message = JsString("A\n\nB\r\n\r\nC")
  /\ extracted = "C"

\* C16: for an input with neither separator, rawBody is the input itself
\* and the parameters are those of the input; for an input with a separator,
\* rawBody is the extracted body and the parameters are those of that body.
C16_ExtractOnlyWithSeparator ==
  (pc \in {"parsed", "categorized"} /\ raw.t = "string") =>
    IF Positions(raw.v, "\r\n\r\n") = {} /\ Positions(raw.v, "\n\n") = {}
    THEN /\ parseResult.rawBody = raw.v
         /\ parameters = parseUrlEncodedBody(raw.v)
    ELSE /\ parseResult.rawBody = extractBodyFromRaw(raw)
         /\ parameters = parseUrlEncodedBody(extractBodyFromRaw(raw))

C16_Witness ==
  /\ pc = "parsed"
  /\ raw = JsString("Host: example.com\n\nkey=value&flag")
  /\ parseResult.rawBody = "key=value&flag"
  /\ Len(parameters) = 2

NOT_BASE64_WARNING ==
  "ViewState is not Base64 encoded - likely encrypted or using custom encoding"

EMPTY_WARNING == "ViewState value is empty or invalid"

JAVA_WARNING ==
  "ViewState contains serialized Java object - potential deserialization vulnerability"

Base64Alphabet ==
  {"A", "B", "C", "D", "E", "F", "G", "H", "I", "J", "K", "L", "M",
   "N", "O", "P", "Q", "R", "S", "T", "U", "V", "W", "X", "Y", "Z",
   "a", "b", "c", "d", "e", "f", "g", "h", "i", "j", "k", "l", "m",
   "n", "o", "p", "q", "r", "s", "t", "u", "v", "w", "x", "y", "z",
   "0", "1", "2", "3", "4", "5", "6", "7", "8", "9", "+", "/"}

\* only base64 characters followed by at most two '=', a length that is a
\* positive multiple of 4 (such a value always decodes, to at least one byte)
WellFormedBase64(s) ==
  /\ Len(s) > 0
  /\ Len(s) % 4 = 0
  /\ \E pad \in 0..2 :
       /\ \A k \in 1..(Len(s) - pad) : SubSeq(s, k, k) \in Base64Alphabet
       /\ \A k \in (Len(s) - pad + 1)..Len(s) : SubSeq(s, k, k) = "="

\* C17 (as stated): the encoding is base64 for a well-formed base64 value
\* and encrypted, with the not-base64 warning, for every other value, the
\* empty one included; no other encoding is returned.
C17_Base64OrEncrypted ==
  pc = "analyzed" =>
    IF WellFormedBase64(viewStateValue)
    THEN viewStateAnalysis.encoding = "base64"
    ELSE /\ viewStateAnalysis.encoding = "encrypted"
         /\ InSeq(NOT_BASE64_WARNING, viewStateAnalysis.warnings)

\* C17 (amended): the encoding is base64 for a well-formed base64 value,
\* encrypted with the not-base64 warning for every other non-empty value,
\* and unknown with the empty-or-invalid warning for the empty value.
C17_Base64EncryptedOrUnknownWhenEmpty ==
  pc = "analyzed" =>
    IF viewStateValue = ""
    THEN /\ viewStateAnalysis.encoding = "unknown"
         /\ viewStateAnalysis.warnings = <<EMPTY_WARNING>>
    ELSE IF WellFormedBase64(viewStateValue)
    THEN viewStateAnalysis.encoding = "base64"
    ELSE /\ viewStateAnalysis.encoding = "encrypted"
         /\ InSeq(NOT_BASE64_WARNING, viewStateAnalysis.warnings)

C17_Witness ==
  /\ pc = "analyzed"
  /\ viewStateValue = "abQUJD"
  /\ viewStateAnalysis.encoding = "encrypted"
  /\ viewStateAnalysis.warnings = <<NOT_BASE64_WARNING>>

\* the first two bytes a base64 text decodes to are 0xAC 0xED exactly when
\* the text starts with r (101011), O (001110) and one of 0 1 2 3 (1101xx)
DecodesToMagic(s) ==
  /\ Len(s) >= 3
  /\ SubSeq(s, 1, 2) = "rO"
  /\ SubSeq(s, 3, 3) \in {"0", "1", "2", "3"}

\* C18: isSerializedJava is set, and the deserialization warning is present,
\* iff the value is classified base64 and its first two decoded bytes are
\* 0xAC 0xED; a shorter payload or another byte pair gets neither.
C18_SerializedJavaIffMagic ==
  pc = "analyzed" =>
    LET magic == /\ viewStateAnalysis.encoding = "base64"
                 /\ DecodesToMagic(viewStateValue)
    IN /\ viewStateAnalysis.isSerializedJava <=> magic
       /\ InSeq(JAVA_WARNING, viewStateAnalysis.warnings) <=> magic
       /\ magic => SubSeq(viewStateAnalysis.decodedContent[1], 1, 2) = <<172, 237>>

C18_Witness ==
  /\ pc = "analyzed"
  /\ viewStateValue = "rO0="
  /\ viewStateAnalysis.decodedContent = << <<172, 237>> >>
  /\ viewStateAnalysis.isSerializedJava
  /\ viewStateAnalysis.warnings = <<JAVA_WARNING>>

\* a warning about the size of the value
IsSizeWarning(w) ==
  includes(w, "Large") \/ includes(w, "large") \/ includes(w, "size")
    \/ includes(w, "performance")

\* C19: the warnings include a large-size performance warning iff the value
\* is longer than 10,000 characters, whichever the encoding.
C19_LargeSizeWarning ==
  pc = "analyzed" =>
    ((\E i \in DOMAIN viewStateAnalysis.warnings :
        IsSizeWarning(viewStateAnalysis.warnings[i]))
      <=> Len(viewStateValue) > 10000)

\* one or more base64 characters followed by '=' characters only, the
\* length a multiple of 4
Base64Shaped(s) ==
  /\ Len(s) % 4 = 0
  /\ \E body \in 1..Len(s) :
       /\ \A k \in 1..body : SubSeq(s, k, k) \in Base64Alphabet
       /\ \A k \in (body + 1)..Len(s) : SubSeq(s, k, k) = "="

\* the result is an analysis of type t
Explained(t) == valueAnalysis # <<>> /\ valueAnalysis[1].type = t

\* C20: an empty value gives null; otherwise each of the six known names
\* gets the analysis of that name whatever the value looks like; any other
\* name gets a Component Identifier if the value contains ':' or j_id, else
\* Base64 Encoded if the value is base64-shaped, else null.
C20_NameThenFallbacks ==
  pc = "explained" =>
    IF explainedValue = "" THEN valueAnalysis = <<>>
    ELSE IF explainedName = "javax.faces.partial.ajax"
      THEN Explained("Boolean Flag")
    ELSE IF explainedName \in {"javax.faces.partial.execute",
                               "javax.faces.partial.render"}
      THEN Explained("Component List")
    ELSE IF explainedName = "javax.faces.source"
      THEN Explained("Component Identifier")
    ELSE IF explainedName = "javax.faces.ViewState"
      THEN Explained("ViewState")
    ELSE IF explainedName = "javax.faces.ClientWindow"
      THEN Explained("Client Window ID")
    ELSE IF Positions(explainedValue, ":") # {}
              \/ Positions(explainedValue, "j_id") # {}
      THEN Explained("Component Identifier")
    ELSE IF Base64Shaped(explainedValue)
      THEN Explained("Base64 Encoded")
    ELSE valueAnalysis = <<>>

C20_Witness ==
  /\ pc = "explained"
  /\ explainedName = "javax.faces.partial.ajax"
  /\ explainedValue = "a:b"
  /\ Explained("Boolean Flag")

\* the four special tokens, each with its label
SPECIAL_TOKENS ==
  << <<"@all", "All components on the page">>,
     <<"@form", "All components in the current form">>,
     <<"@this", "Only the component that triggered the request">>,
     <<"@none", "No components">> >>

IsSpecialToken(tok) == \E i \in DOMAIN SPECIAL_TOKENS : SPECIAL_TOKENS[i][1] = tok

LabelOf(tok) ==
  SPECIAL_TOKENS[CHOOSE i \in DOMAIN SPECIAL_TOKENS : SPECIAL_TOKENS[i][1] = tok][2]

\* the white-space-separated tokens of the explained value
ListTokens == splitWhiteSpace(explainedValue)

\* C21: for an execute/render list, each occurrence of @all, @form, @this
\* or @none gives one labeled detail line, every other token is a regular
\* component, n > 0 regular tokens give one count line stating n followed
\* by n bullet lines, and the explanation states the total number of tokens.
C21_FourSpecialTokens ==
  (/\ pc = "explained"
   /\ explainedName \in {"javax.faces.partial.execute", "javax.faces.partial.render"}
   /\ explainedValue # "") =>
    LET special == SelectSeq(ListTokens, IsSpecialToken)
        regular == SelectSeq(ListTokens, LAMBDA tok : ~IsSpecialToken(tok))
        details == valueAnalysis[1].details
    IN /\ Len(details) = Len(special)
                           + (IF Len(regular) > 0 THEN Len(regular) + 1 ELSE 0)
       /\ \A i \in DOMAIN special :
            details[i] = special[i] \o " \\u2192 " \o LabelOf(special[i])
       /\ Len(regular) > 0 =>
            /\ details[Len(special) + 1] =
                 "Specific components: " \o numberToString(Len(regular))
                   \o " component(s)"
            /\ \A i \in DOMAIN regular :
                 details[Len(special) + 1 + i] = "  \\u2022 " \o regular[i]
       /\ includes(valueAnalysis[1].explanation,
                   "(" \o numberToString(Len(ListTokens)) \o " item(s))")

\* C22: for a non-empty view-state value, the Value Explainer reports
\* "Encoding: Base64" iff the View-State Analyzer classifies the same value
\* as base64.
C22_SameClassification ==
  (/\ pc = "explained"
   /\ explainedName = "javax.faces.ViewState"
   /\ explainedValue # "") =>
    (InSeq("Encoding: Base64", valueAnalysis[1].details)
      <=> analyzeViewState(explainedValue).encoding = "base64")

\* C23: the list scanForSecurityPatterns returns is sorted by severity (every
\* high hit before every medium hit before every low hit), no two of its hits
\* share the same category and matched text, and it is empty for an empty,
\* null or non-string input.
C23_SortedAndDeduplicated ==
  pc = "scanned" =>
    /\ \A i, j \in DOMAIN highlights :
         i < j => severityOrder[highlights[i].severity]
                    <= severityOrder[highlights[j].severity]
    /\ \A i, j \in DOMAIN highlights :
         (/\ highlights[i].category = highlights[j].category
          /\ highlights[i].content = highlights[j].content) => i = j
    /\ NotAString(content) => highlights = <<>>

\* a text whose first hit in scan order is of medium severity and matched by
\* two patterns of its category, and whose later hit is of high severity
C23_Witness ==
  /\ pc = "scanned"
  /\ content = JsString("/home/b Caused by: ")
  /\ Len(highlights) = 2
  /\ highlights[1].content = "Caused by:" /\ highlights[1].severity = "high"
  /\ highlights[2].content = "/home/b" /\ highlights[2].severity = "medium"

\* the decoded names of the parameters, in order
DecodedNames == [i \in DOMAIN parameters |-> parameters[i].decodedName]

\* the elements of sq without repetitions, in the order they first occur
FirstSeen(sq) ==
  LET first == {i \in DOMAIN sq : \A j \in 1..(i - 1) : sq[j] # sq[i]}
      nth(r) == CHOOSE i \in first : Cardinality({j \in first : j < i}) = r - 1
  IN [r \in 1..Cardinality(first) |-> sq[nth(r)]]

\* the version labels of the names that are version keys, in name order
RECURSIVE VersionLabels(_)
VersionLabels(names) ==
  IF names = <<>> THEN <<>>
  ELSE LET hit == {i \in DOMAIN VERSION_INDICATORS :
                     VERSION_INDICATORS[i][1] = Head(names)}
       IN (IF hit = {} THEN <<>>
           ELSE <<VERSION_INDICATORS[CHOOSE i \in hit : TRUE][2]>>)
            \o VersionLabels(Tail(names))

\* 0 for a per-parameter indicator, then 1, 2, 3 for the three summary lines
IndicatorKind(x) ==
  IF startsWith(x, "Implementation: ") THEN 1
  ELSE IF startsWith(x, "Version features: ") THEN 2
  ELSE IF startsWith(x, "Request type: ") THEN 3
  ELSE 0

\* the parameter name a per-parameter indicator carries
IndicatorName(x) ==
  IF startsWith(x, "Standard JSF parameter: ")
  THEN substring(x, Len("Standard JSF parameter: "), Len(x))
  ELSE substring(x, Len("Form submission marker: "), Len(x))

OfKind(k) == SelectSeq(detection.indicators, LAMBDA x : IndicatorKind(x) = k)

\* sub is sq with some elements left out, each element of sq used at most
\* twice in a row (a name can be both a standard parameter and a marker)
RECURSIVE InOrderOf(_, _, _)
InOrderOf(sub, sq, uses) ==
  IF sub = <<>> THEN TRUE
  ELSE IF sq = <<>> THEN FALSE
  ELSE IF Head(sub) = Head(sq) /\ uses < 2
    THEN InOrderOf(Tail(sub), sq, uses + 1) \/ InOrderOf(sub, Tail(sq), 0)
  ELSE InOrderOf(sub, Tail(sq), 0)

\* C24: in the indicators of detectJsf the per-parameter indicators come
\* first and in parameter order, then at most one "Implementation:" line,
\* then at most one "Version features:" line whose labels are deduplicated in
\* first-seen order, then at most one "Request type:" line, which is the AJAX
\* one whenever javax.faces.partial.ajax was seen, the postback one when only
\* javax.faces.ViewState was seen, and absent when neither was seen.
C24_IndicatorOrder ==
  pc = "categorized" =>
    LET indicators == detection.indicators
        labels == FirstSeen(VersionLabels(DecodedNames))
        ajax == InSeq("javax.faces.partial.ajax", DecodedNames)
        viewState == InSeq(VIEW_STATE, DecodedNames)
    IN /\ \A i, j \in DOMAIN indicators :
            i < j => IndicatorKind(indicators[i]) <= IndicatorKind(indicators[j])
       /\ InOrderOf([i \in DOMAIN OfKind(0) |-> IndicatorName(OfKind(0)[i])],
                    DecodedNames, 0)
       /\ Len(OfKind(1)) <= 1
       /\ OfKind(2) = IF labels = <<>> THEN <<>>
                      ELSE <<"Version features: " \o join(labels, ", ")>>
       /\ OfKind(3) = IF ajax THEN <<"Request type: AJAX Partial Request">>
                      ELSE IF viewState THEN <<"Request type: Full Page Postback">>
                      ELSE <<>>

\* a view state before the AJAX marker: two labels in first-seen order and
\* the AJAX request type
C24_Witness ==
  /\ pc = "categorized"
  /\ DecodedNames = <<VIEW_STATE, "javax.faces.partial.ajax">>
  /\ detection.indicators =
       <<"Standard JSF parameter: javax.faces.ViewState",
         "Standard JSF parameter: javax.faces.partial.ajax",
         "Version features: JSF 1.0+ (Core framework), JSF 2.0+ (AJAX support)",
         "Request type: AJAX Partial Request">>

\* the name is a key of VERSION_INDICATORS or holds a key of
\* IMPLEMENTATION_INDICATORS
IsVersionOrImplementationName(name) ==
  \/ \E i \in DOMAIN VERSION_INDICATORS : VERSION_INDICATORS[i][1] = name
  \/ \E i \in DOMAIN IMPLEMENTATION_INDICATORS :
       includes(name, IMPLEMENTATION_INDICATORS[i][1])

\* some name holds j_id_ and no name is one the detector looks for
OnlyComponentIds ==
  /\ \E i \in DOMAIN DecodedNames : includes(DecodedNames[i], "j_id_")
  /\ \A i \in DOMAIN DecodedNames :
       /\ ~startsWith(DecodedNames[i], "javax.faces.")
       /\ ~endsWith(DecodedNames[i], "_SUBMIT")
       /\ ~IsVersionOrImplementationName(DecodedNames[i])

\* C25: for a body whose decoded names contain j_id_ but none starts with
\* javax.faces., none ends with _SUBMIT and none matches a version or
\* implementation key, detectJsf returns isJsf = false with confidence low,
\* while categorizeParameters puts the j_id_ parameters in componentIds.
C25_ComponentIdsAloneNotJsf ==
  (pc = "categorized" /\ OnlyComponentIds) =>
    /\ detection.isJsf = FALSE
    /\ detection.confidence = "low"
    /\ \A i \in DOMAIN parameters :
         includes(parameters[i].decodedName, "j_id_") =>
           Where(parameters[i]) = {"componentIds"}

C25_Witness ==
  /\ pc = "categorized"
  /\ OnlyComponentIds
  /\ Len(parameters) = 2
  /\ Len(categories.componentIds) = 1
  /\ Len(categories.custom) = 1
  /\ ~detection.isJsf

ParsedParameterFields == {"name", "decodedName", "value", "decodedValue"}

\* the references of the input objects before a call of categorizeParameters
InputRefs == DOMAIN parameters

\* C26: categorizeParameters leaves its input unchanged: after the call the
\* input list has the same length and order, every input object has the same
\* name, decodedName, value and decodedValue and no other field, and each
\* bucket entry is a fresh object that carries the four fields of an input
\* object unchanged.
C26_InputUnchanged ==
  [][(pc = "parsed" /\ pc' = "categorized") =>
       /\ parseResult'.parameters = parseResult.parameters
       /\ \A i \in DOMAIN parseResult'.parameters :
            DOMAIN parseResult'.parameters[i] = ParsedParameterFields
       /\ \A b \in Buckets : \A k \in DOMAIN categoryRefs'[b] :
            /\ categoryRefs'[b][k] \notin InputRefs
            /\ \E i \in InputRefs : Base(categories'[b][k]) = parameters[i]
            /\ ParsedParameterFields \subseteq DOMAIN categories'[b][k]
       /\ \A b \in Buckets : \A k, l \in DOMAIN categoryRefs'[b] :
            categoryRefs'[b][k] = categoryRefs'[b][l] => k = l]_vars

\* two input objects, categorized into two buckets
C26_Witness ==
  /\ pc = "categorized"
  /\ Len(parameters) = 2
  /\ categoryRefs.viewState = <<3>>
  /\ categoryRefs.custom = <<4>>
  /\ \A i \in DOMAIN parameters : DOMAIN parameters[i] = ParsedParameterFields

\* C27: on the same input, whenever categorizeParameters has a view state or
\* a non-empty standardJsf bucket, detectJsf returns isJsf = true with
\* confidence high, and whenever the formSubmit bucket is non-empty,
\* detectJsf returns isJsf = true.
C27_DetectorAgreesWithCategorizer ==
  pc = "categorized" =>
    /\ (categories.viewState # <<>> \/ categories.standardJsf # <<>>) =>
         (detection.isJsf /\ detection.confidence = "high")
    /\ categories.formSubmit # <<>> => detection.isJsf

\* a form-submit marker next to a standard parameter
C27_Witness ==
  /\ pc = "categorized"
  /\ categories.formSubmit # <<>>
  /\ categories.standardJsf # <<>>
  /\ detection.isJsf
  /\ detection.confidence = "high"

NO_REQUEST == "No request body provided. Select a request to analyze."
FAILED_TO_PARSE == "Failed to parse request body."
NOT_JSF == "This does not appear to be a JSF request."

\* a candidate of the props is a non-empty string
RawFound == \E s \in DOMAIN props : ~NotAString(props[s])

\* the first such candidate, in the order of the candidates
FirstRaw ==
  props[RAW_SOURCES[CHOOSE i \in DOMAIN RAW_SOURCES :
          /\ ~NotAString(props[RAW_SOURCES[i]])
          /\ \A j \in 1..(i - 1) : NotAString(props[RAW_SOURCES[j]])]]

\* C28 (display): the analysis content is displayed only when a non-empty
\* raw message was found, parsing did not fail and detection.isJsf is true;
\* in every other case exactly one error message is shown instead: no
\* request, failed to parse, not a JSF request, checked in that order.
C28_Display ==
  pc = "rendered" =>
    LET parsed == parsedRequestOf(props)
        shown == rendered.mainContent
    IN /\ shown <=> (RawFound /\ parsed # <<>> /\ detectJsf(FirstRaw).isJsf)
       /\ shown => rendered.errorMessage = <<>>
       /\ ~shown => rendered.errorMessage =
            IF ~RawFound THEN <<NO_REQUEST>>
            ELSE IF parsed = <<>> THEN <<FAILED_TO_PARSE>>
            ELSE <<NOT_JSF>>

\* C28: the display is as above in every state, and Copy as Text and Copy as
\* JSON do nothing when there is no parsed request.
C28_ContentOrOneError ==
  /\ []C28_Display
  /\ [][(pc = "rendered" /\ parsedRequestOf(props) = <<>>) =>
          (clipboard' = clipboard /\ copyFeedback' = copyFeedback)]_vars

\* a JSF request behind an empty candidate: the content is shown and a copy
\* was made
C28_Witness ==
  /\ pc = "rendered"
  /\ props.raw = JsString("")
  /\ RawFound
  /\ rendered.mainContent
  /\ clipboard # <<>>
  /\ clipboard[1].format = "json"

\* the calls before the n-th that store an instance
StoredBefore(n) == {i \in 1..(n - 1) : calls[i].op \in {"setCaido", "init"}}

\* C29: getCaido raises an error whenever setCaido has not been called yet,
\* and after any sequence of setCaido calls it returns the instance of the
\* most recent one; init calls setCaido before it registers the view mode on
\* any surface, and registers it only on the surfaces that are present, of
\* httpHistory, replay, search and sitemap.
C29_SingletonAndRegistration ==
  pc = "plugin" =>
    \A n \in DOMAIN calls :
      /\ calls[n].op = "getCaido" =>
           IF StoredBefore(n) = {}
           THEN ~calls[n].result.ok
           ELSE /\ calls[n].result.ok
                /\ calls[n].result.v =
                     calls[CHOOSE i \in StoredBefore(n) :
                             \A j \in StoredBefore(n) : j <= i].instance
      /\ calls[n].op = "init" =>
           LET steps == calls[n].steps
               on == {steps[i].on : i \in 2..Len(steps)}
           IN /\ steps[1].op = "setCaido"
              /\ \A i \in 2..Len(steps) : steps[i].op = "addRequestViewMode"
              /\ on = calls[n].instance.surfaces
                        \cap {"httpHistory", "replay", "search", "sitemap"}
              /\ Len(steps) = 1 + Cardinality(on)

\* getCaido before any call, after two setCaido calls, and an init with two
\* of the four surfaces
C29_Witness ==
  /\ pc = "plugin"
  /\ Len(calls) = 3
  /\ calls[1].op = "setCaido" /\ calls[2].op = "setCaido"
  /\ calls[1].instance # calls[2].instance
  /\ calls[3].op = "getCaido"
  /\ calls[3].result = [ok |-> TRUE, v |-> calls[2].instance]

\* how many times key was toggled by op since the mount
Toggled(op, key) ==
  Cardinality({n \in DOMAIN history : history[n].op = op /\ history[n].key = key})

Odd(n) == n % 2 = 1

\* the sections as the mount loaded them
LoadedSections == history[1].after

\* toggleSection(s) changes the membership of s only and leaves the expanded
\* parameters alone
ToggleSectionFrame ==
  \A s \in Sections :
    history' = Append(history, [op |-> "toggleSection", key |-> s,
                                after |-> expandedSections']) =>
      /\ InSeq(s, expandedSections') # InSeq(s, expandedSections)
      /\ \A t \in Sections \ {s} :
           InSeq(t, expandedSections') = InSeq(t, expandedSections)
      /\ expandedParams' = expandedParams

\* two toggles of the same section in a row restore the sections there were
\* before them (as a set: the order of insertion is not part of the state a
\* user sees)
DoubleToggleRestores ==
  \A n \in 3..Len(history) :
    (/\ history[n].op = "toggleSection"
     /\ history[n - 1].op = "toggleSection"
     /\ history[n].key = history[n - 1].key) =>
      {history[n].after[i] : i \in DOMAIN history[n].after}
        = {history[n - 2].after[i] : i \in DOMAIN history[n - 2].after}

\* C30 (as stated): for any sequence of toggleSection and toggleParam calls, a
\* section or parameter key is expanded iff it has been toggled an odd number
\* of times since the set was last loaded; toggleSection(s) changes the
\* membership of s only and leaves the other sections and expandedParams
\* unchanged, and two consecutive toggles of a section restore the state.
C30_ExpandedIffOddToggles ==
  /\ [](pc = "mounted" =>
          /\ \A s \in Sections :
               InSeq(s, expandedSections) <=> Odd(Toggled("toggleSection", s))
          /\ \A k \in ParamKeys :
               InSeq(k, expandedParams) <=> Odd(Toggled("toggleParam", k))
          /\ DoubleToggleRestores)
  /\ [][pc = "mounted" => ToggleSectionFrame]_vars

\* C30 (amended): a parameter key is expanded iff it has been toggled an odd
\* number of times; a section is expanded iff the number of its toggles since
\* the settings were loaded is odd when the loaded set did not hold it, and
\* even when the loaded set held it; the frame and the double toggle are as
\* stated.
C30_ExpandedIffOddTogglesOfLoaded ==
  /\ [](pc = "mounted" =>
          /\ \A s \in Sections :
               InSeq(s, expandedSections)
                 <=> (InSeq(s, LoadedSections) # Odd(Toggled("toggleSection", s)))
          /\ \A k \in ParamKeys :
               InSeq(k, expandedParams) <=> Odd(Toggled("toggleParam", k))
          /\ DoubleToggleRestores)
  /\ [][pc = "mounted" => ToggleSectionFrame]_vars

\* a section the settings held, collapsed by one toggle, and another one
\* toggled twice
C30_Witness ==
  /\ pc = "mounted"
  /\ LoadedSections = <<"custom", "standardJsf">>
  /\ Toggled("toggleSection", "custom") = 1
  /\ Toggled("toggleSection", "viewState") = 2
  /\ expandedSections = <<"standardJsf">>

====
